---------------------------- MODULE Spec2Model ----------------------------
(***************************************************************************)
(* A model of the user-space virtual-interface core of onload's ef_vi      *)
(* library: the EFCT receive engine (superbuffer fill/free rings, packet   *)
(* ids, sentinel phases, refcounts, rollover) and the EFCT CTPIO transmit  *)
(* engine (framing, padding, FIFO accounting, completion reconciliation),  *)
(* src/src/lib/ciul/efct_vi.c.                                             *)
(*                                                                         *)
(* A 32-bit rxq_ptr value v is held as the record                          *)
(*   [sentinel |-> v >> 31, pkt_id |-> v & 0x7fffffff]                     *)
(* so that no model integer exceeds 31 bits.                               *)
(*                                                                         *)
(* One call of a library function is one atomic action.  A poll that is    *)
(* interleaved with NIC or kernel activity is the same as consecutive      *)
(* polls with a smaller evs_len, because a poll keeps nothing between its  *)
(* iterations but the loop counter.                                        *)
(***************************************************************************)
EXTENDS Integers, Naturals, Sequences, FiniteSets, TLC

(***************************************************************************)
(* Bounds of the model.                                                    *)
(***************************************************************************)
\* packets per superbuffer, EFCT_RX_SUPERBUF_BYTES / EFCT_PKT_STRIDE, scaled
SuperbufPkts == 2
\* superbuffers the kernel owns for one RX queue
NSuperbufs == 2
\* superbuffer publications on the fill ring in one run
MaxPosts == 3
\* log2 of the capacity of the shared fill and free rings
RingBits == 1
\* the largest evs_len a poll is called with
MaxEvs == 2
\* extension tags before a cPacket trailer
MaxTags == 3
\* shared config_generation bumps in one run
MaxGen == 1

\* the application polls while it holds fewer packets than this
MaxInflight == 2
\* transmits in one run
MaxTx == 4
\* blocks of an iovec
MaxIov == 2
\* log2 of the capacity of the TX descriptor ring
TxRingBits == 2
\* log2 of the number of entries of the event ring
EvqBits == 1
\* bits of the sequence field of a TX completion event
SeqBits == 3
\* completion events in one run of events that is handled one by one
MaxMerge == 3
\* bits of the counters of the AF_XDP rings, 32 in the code
CounterBits == 4
\* packets the application gives the AF_XDP VI to send, and buffers it gives
\* it to fill, in one run
MaxXdp == 4
\* the completions that one TX event of the AF_XDP poll reports at most
BatchLen == 2

(***************************************************************************)
(* Program constants.                                                      *)
(***************************************************************************)
PKTS_PER_SUPERBUF_BITS == 16
CI_EFCT_MAX_SUPERBUFS == 1024
SENTINEL_BIT_IN_SBID == 15
EAGAIN == 11
ENOSPC == 28
ENOMEM == 12
EINVAL == 22
ENOSYS == 38
EOPNOTSUPP == 95
\* 0xffffffff as a signed 32-bit value
EF_REQUEST_ID_MASK == -1
\* sizeof(ci_qword_t), the size of an event-ring entry
EF_VI_EV_SIZE == 8
\* the values of these two are from the specification
EFCT_TX_ALIGNMENT == 64
EFCT_TX_HEADER_BYTES == 8

\* the RX queues of the VI that the model attaches
Qids == {0}
Sbids == 0 .. (NSuperbufs - 1)
RingSize == 2 ^ RingBits
Pow2(n) == 2 ^ n
\* rc & CI_EFCT_Q_SUPERBUF_ID_MASK: the bits below the sentinel
CI_EFCT_Q_SUPERBUF_ID_MASK == Pow2(SENTINEL_BIT_IN_SBID) - 1
SbidOf(rc) == rc % Pow2(SENTINEL_BIT_IN_SBID)
GlobalIxs == {q * CI_EFCT_MAX_SUPERBUFS + s : q \in Qids, s \in Sbids}

VARIABLES
  \* ---- ef_vi / ef_vi_state, RX side
  superbuf_pkts,          \* vi->efct_rxq[q].superbuf_pkts, 0 = inactive
  rxq_config_generation,  \* vi->efct_rxq[q].config_generation
  rxq_ptr,                \* ep_state->rxq.rxq_ptr[q] = [next, prev]
  rxq_removed,            \* ep_state->rxq.removed
  rxq_added,              \* ep_state->rxq.added
  refcnt,                 \* vi_rxq.descriptors[global superbuf ix].refcnt
  \* ---- efab_efct_rxq_uk_shm, shared with the kernel
  shm_rxq,                \* shm->rxq   = [q, added, removed] per queue
  shm_freeq,              \* shm->freeq = [q, added, removed] per queue
  shm_config_generation,  \* shm->config_generation
  \* ---- superbuffer memory written by the NIC
  hdr,                    \* sentinel of the header at [global ix][index]
  \* ---- kernel and NIC
  k_free,                 \* superbuffers the kernel holds, per queue
  k_phase,                \* sentinel the next use of a superbuffer gets
  posted,                 \* every publication <<sbid, sentinel>>, in order
  nic_w,                  \* header writes the NIC has done, per queue
  \* ---- ef_vi / ef_vi_state, TX side and event queue
  ct_fifo_bytes,          \* vi->vi_txq.ct_fifo_bytes
  txq_added,              \* ep_state->txq.added
  txq_removed,            \* ep_state->txq.removed
  txq_previous,           \* ep_state->txq.previous
  txq_ct_added,           \* ep_state->txq.ct_added
  txq_ct_removed,         \* ep_state->txq.ct_removed
  txq_descriptors,        \* vi_txq.descriptors[i].len
  txq_ids,                \* vi_txq.ids[i]
  evq_ptr,                \* ep_state->evq.evq_ptr
  evq,                    \* the event ring at vi->evq_base
  \* ---- the NIC's transmit side
  nic_done,               \* packets the NIC has completed
  nic_evq_w,              \* events the NIC has written
  \* ---- ef_vi / ef_vi_state of a VI over AF_XDP, and its four kernel rings
  xdp_rxq,                \* ep_state->rxq [added, removed] and vi_rxq.ids
  xdp_txq,                \* ep_state->txq [added, removed, previous], vi_txq.ids
  xdp_fr,                 \* vi->xdp_fr, the fill ring [producer, consumer, desc]
  xdp_rx,                 \* vi->xdp_rx, the RX ring
  xdp_tx,                 \* vi->xdp_tx, the TX ring
  xdp_cr,                 \* vi->xdp_cr, the completion ring
  xdp_posts,              \* packets and buffers the VI was given in this run
  xdp_accepted,           \* the kernel's TX position: what its kicks accepted
  \* ---- the ef_vi that ef_vi_init fills in
  vi,                     \* nic_type.arch, vi_flags, vi_is_normal, inited, ops
  \* ---- the packet buffer and the timestamp of the cPacket trailer test
  cp,                     \* union pkt_buf, struct onload_timestamp
  \* ---- a call that the kernel may interleave with
  pc,                     \* where the call in progress stands, and its locals
  \* ---- observation
  tx_exact,               \* did a transmit of exactly the space left succeed?
  emitted,                \* every rq_id emitted, in order, per queue
  inflight,               \* packet ids emitted and not yet released
  roll_hist,              \* per successful rollover: startup branch taken?
  eagain_first,           \* did a rollover return EAGAIN before the first success?
  refresh_last,           \* the last refresh: its result and when it ran
  rel_since,              \* releases of a superbuffer since it became current
  free_since,             \* free-ring enqueues of it since it became current
  last                    \* what the last call returned

rx_vars == <<superbuf_pkts, rxq_config_generation, rxq_ptr, rxq_removed,
             refcnt, shm_rxq, shm_freeq, shm_config_generation, hdr,
             k_free, k_phase, posted, nic_w, emitted, inflight, roll_hist,
             eagain_first, rel_since, free_since>>

tx_vars == <<ct_fifo_bytes, txq_added, txq_removed, txq_previous,
             txq_ct_added, txq_ct_removed, txq_descriptors, txq_ids, evq_ptr,
             evq, nic_done, nic_evq_w, tx_exact>>

xdp_vars == <<xdp_rxq, xdp_txq, xdp_fr, xdp_rx, xdp_tx, xdp_cr, xdp_posts>>

\* rxq.added, which no operation of the EFCT VI writes, and the record of the
\* refreshes
rx_ctl == <<rxq_added, refresh_last>>

\* what only the specification of one claim moves
side_vars == <<xdp_accepted, vi, cp, pc>>

vars == <<rx_vars, tx_vars, xdp_vars, rx_ctl, side_vars, last>>

(***************************************************************************)
(* Packet ids, efct_vi.c:20-51 and 131-135.                                *)
(***************************************************************************)
pkt_id_to_index_in_superbuf(pkt_id) == pkt_id % Pow2(PKTS_PER_SUPERBUF_BITS)

pkt_id_to_global_superbuf_ix(pkt_id) == pkt_id \div Pow2(PKTS_PER_SUPERBUF_BITS)

pkt_id_to_local_superbuf_ix(pkt_id) ==
  pkt_id_to_global_superbuf_ix(pkt_id) % CI_EFCT_MAX_SUPERBUFS

pkt_id_to_rxq_ix(pkt_id) ==
  pkt_id_to_global_superbuf_ix(pkt_id) \div CI_EFCT_MAX_SUPERBUFS

\* ptr & 0x7fffffff
rxq_ptr_to_pkt_id(ptr) == ptr.pkt_id

\* a 32-bit value from its bit 31 and its low 31 bits
U32(s, id) == [sentinel |-> s, pkt_id |-> id]

\* ptr + 1 on 32 bits
U32Inc(ptr) ==
  IF ptr.pkt_id = 2147483647
    THEN U32(1 - ptr.sentinel, 0)
    ELSE U32(ptr.sentinel, ptr.pkt_id + 1)

\* the pkt_id of packet idx of superbuffer sb of queue q
PktId(q, sb, idx) ==
  (q * CI_EFCT_MAX_SUPERBUFS + sb) * Pow2(PKTS_PER_SUPERBUF_BITS) + idx

\* no rollover was called
NoRoll == [valid |-> FALSE, fill |-> 0, prog |-> <<>>]

\* what the last call of the library returned: its result, the fault it ended
\* with (an assertion of the code that failed), and for a poll how it
\* stopped, the log of its iterations and what its last rollover started from;
\* arg is the evs_len of the call and at the indices of the event array it
\* wrote, where the call records them
Call(op, ret, fault) ==
  [op |-> op, ret |-> ret, stop |-> "", fault |-> fault, log |-> <<>>,
   pre_roll |-> NoRoll, arg |-> 0, at |-> <<>>]

(***************************************************************************)
(* What a poll may change, gathered in one record so that the functions    *)
(* the poll calls can be written as the code writes them.  evs, log, stop  *)
(* and pre_roll belong to one call of the poll.                            *)
(***************************************************************************)
RxState ==
  [rxq_ptr |-> rxq_ptr, shm_rxq |-> shm_rxq, shm_freeq |-> shm_freeq,
   refcnt |-> refcnt, rxq_removed |-> rxq_removed,
   rxq_config_generation |-> rxq_config_generation,
   roll_hist |-> roll_hist, eagain_first |-> eagain_first,
   rel_since |-> rel_since, free_since |-> free_since,
   evs |-> <<>>, log |-> <<>>, stop |-> "max", pre_roll |-> NoRoll,
   at |-> <<>>]

\* the part of an RxState that the program writes: its pointers, counters
\* and refcounts, the consumer side of the fill ring and the producer side of
\* the free ring
RxProgramState(st) ==
  <<st.rxq_ptr, st.refcnt, st.rxq_removed, st.rxq_config_generation,
    [q \in Qids |-> st.shm_rxq[q].removed],
    [q \in Qids |-> <<st.shm_freeq[q].added, st.shm_freeq[q].q>>]>>

\* what a rollover of queue qid starts from: the program state and the number
\* of superbuffers on the fill ring
RollSnapshot(st, qid) ==
  [valid |-> TRUE, fill |-> st.shm_rxq[qid].added - st.shm_rxq[qid].removed,
   prog |-> RxProgramState(st)]

(***************************************************************************)
(* superbuf_next, efct_vi.c:71-89: the next superbuffer of the fill ring,  *)
(* or -EAGAIN when the ring is empty.                                      *)
(***************************************************************************)
\* faulty variant of superbuf_next: what the rollover properties must reject
superbuf_next_wrong(st, qid) ==
  LET shm == st.shm_rxq[qid]
  IN  IF shm.added = shm.removed
        THEN [rc |-> -EAGAIN,
              st |-> [st EXCEPT !.shm_rxq[qid].removed = shm.removed + 1]]
        ELSE [rc |-> shm.q[shm.removed % RingSize],
              st |-> [st EXCEPT !.shm_rxq[qid].removed = shm.removed + 1]]

superbuf_next(st, qid) ==
  LET shm == st.shm_rxq[qid]
      added == shm.added
      removed == shm.removed
      sbid == shm.q[removed % RingSize]
  IN  IF added = removed
        THEN [rc |-> -EAGAIN, st |-> st]
        ELSE [rc |-> sbid,
              st |-> [st EXCEPT !.shm_rxq[qid].removed = removed + 1]]

(***************************************************************************)
(* efct_rx_header and efct_rx_next_header, efct_vi.c:120-148.  The header  *)
(* address is arithmetic on the packet id; the model reads the sentinel of *)
(* the header stored there.  TRUE stands for a non-NULL header.            *)
(***************************************************************************)
efct_rx_header(pkt_id) ==
  hdr[pkt_id_to_global_superbuf_ix(pkt_id)][pkt_id_to_index_in_superbuf(pkt_id)]

\* faulty variant of efct_rx_next_header: what the sentinel gate must reject
efct_rx_next_header_wrong(st, qid) ==
  efct_rx_header(rxq_ptr_to_pkt_id(st.rxq_ptr[qid].next)) \in {0, 1}

efct_rx_next_header(st, qid) ==
  LET next == st.rxq_ptr[qid].next
      expect_phase == next.sentinel
      actual_phase == efct_rx_header(rxq_ptr_to_pkt_id(next))
  IN  expect_phase = actual_phase

(***************************************************************************)
(* rx_rollover, efct_vi.c:501-526.  rx_rollover_with is the function from  *)
(* line 508 on, given what superbuf_next returned.                         *)
(***************************************************************************)
\* the test of line 513: is this the rollover that ignores the first metadata?
\* faulty variant of the test of line 513
rx_rollover_no_metadata_wrong(next, pkts) ==
  pkt_id_to_index_in_superbuf(next.pkt_id) >= pkts

rx_rollover_no_metadata(next, pkts) ==
  pkt_id_to_index_in_superbuf(next.pkt_id) > pkts

\* the refcount of line 524
\* faulty variant of the refcount of line 524: one reference short
rx_rollover_refcnt_wrong(pkts) == pkts - 1

rx_rollover_refcnt(pkts) == pkts

rx_rollover_with(r, ptr0, qid, pkts, gix) ==
  LET pkt_id == gix * Pow2(PKTS_PER_SUPERBUF_BITS)
      next == U32(r.rc \div Pow2(SENTINEL_BIT_IN_SBID), pkt_id)
      startup == rx_rollover_no_metadata(ptr0.next, pkts)
      ptr == IF startup
               THEN [prev |-> next, next |-> U32Inc(next)]
               ELSE [ptr0 EXCEPT !.next = next]
  IN  IF r.rc < 0
        THEN [rc |-> r.rc,
              st |-> [r.st EXCEPT !.eagain_first[qid] =
                                    @ \/ r.st.roll_hist[qid] = <<>>]]
        ELSE [rc |-> 0,
              st |-> [r.st EXCEPT !.rxq_ptr[qid] = ptr,
                                  !.refcnt[gix] = rx_rollover_refcnt(pkts),
                                  !.roll_hist[qid] = Append(@, startup),
                                  !.rel_since[gix] = 0,
                                  !.free_since[gix] = 0]]

rx_rollover_rc(r, st, qid) ==
  rx_rollover_with(r, st.rxq_ptr[qid], qid, superbuf_pkts[qid],
                   qid * CI_EFCT_MAX_SUPERBUFS + SbidOf(r.rc))

rx_rollover(st, qid) == rx_rollover_rc(superbuf_next(st, qid), st, qid)

(***************************************************************************)
(* superbuf_config_refresh, efct_vi.c:53-69: the cached generation is set  *)
(* before the resource op, whose result the kernel decides.                *)
(***************************************************************************)
superbuf_config_refresh(st, qid, op_ok) ==
  [rc |-> IF op_ok THEN 0 ELSE -ENOMEM,
   st |-> [st EXCEPT !.rxq_config_generation[qid] =
                        shm_config_generation[qid]]]

(***************************************************************************)
(* The loop of efct_poll_rx, efct_vi.c:539-577, from iteration i on, in    *)
(* the order of the code: the rollover test (542-549), the generation test *)
(* (554-556), the header test and the emission (558-576).  Each iteration  *)
(* that reaches the header test adds an entry to log: the pointers, the    *)
(* sentinel read, the refcount of prev's superbuffer, whether it emitted.  *)
(***************************************************************************)
RECURSIVE efct_poll_rx_loop(_, _, _, _, _)
RECURSIVE efct_poll_rx_rolled(_, _, _, _, _, _)
RECURSIVE efct_poll_rx_config(_, _, _, _, _)
RECURSIVE efct_poll_rx_refreshed(_, _, _, _, _)
RECURSIVE efct_poll_rx_header(_, _, _, _, _)
RECURSIVE efct_poll_rx_emit(_, _, _, _, _, _, _)

efct_poll_rx_loop(st, qid, i, evs_len, op_ok) ==
  IF i >= evs_len THEN [st EXCEPT !.stop = "max"]
  ELSE IF pkt_id_to_index_in_superbuf(rxq_ptr_to_pkt_id(st.rxq_ptr[qid].next))
            >= superbuf_pkts[qid]
    THEN efct_poll_rx_rolled(rx_rollover(st, qid), RollSnapshot(st, qid),
                             qid, i, evs_len, op_ok)
    ELSE efct_poll_rx_config(st, qid, i, evs_len, op_ok)

efct_poll_rx_rolled(roll, before, qid, i, evs_len, op_ok) ==
  IF roll.rc < 0
    THEN [roll.st EXCEPT !.stop = "eagain", !.pre_roll = before]
    ELSE efct_poll_rx_config([roll.st EXCEPT !.pre_roll = before],
                             qid, i, evs_len, op_ok)

efct_poll_rx_config(st, qid, i, evs_len, op_ok) ==
  IF shm_config_generation[qid] /= st.rxq_config_generation[qid]
    THEN efct_poll_rx_refreshed(superbuf_config_refresh(st, qid, op_ok),
                                qid, i, evs_len, op_ok)
    ELSE efct_poll_rx_header(st, qid, i, evs_len, op_ok)

\* faulty variant of lines 555-556: the poll returns after every refresh
efct_poll_rx_refreshed_wrong(refr, qid, i, evs_len, op_ok) ==
  [refr.st EXCEPT !.stop = IF refr.rc < 0 THEN "refresh" ELSE "max"]

efct_poll_rx_refreshed(refr, qid, i, evs_len, op_ok) ==
  IF refr.rc < 0
    THEN [refr.st EXCEPT !.stop = "refresh"]
    ELSE efct_poll_rx_header(refr.st, qid, i, evs_len, op_ok)

efct_poll_rx_header(st, qid, i, evs_len, op_ok) ==
  efct_poll_rx_emit(st, st.rxq_ptr[qid], efct_rx_next_header(st, qid),
                    qid, i, evs_len, op_ok)

\* the rq_id of line 569
\* faulty variant of the rq_id of line 569: the id of the next packet
efct_poll_rx_rq_id_wrong(ptr) == rxq_ptr_to_pkt_id(ptr.next)

efct_poll_rx_rq_id(ptr) == rxq_ptr_to_pkt_id(ptr.prev)

efct_poll_rx_emit(st, ptr, header, qid, i, evs_len, op_ok) ==
  LET entry == [q_id |-> qid, next |-> ptr.next, prev |-> ptr.prev,
                removed |-> st.rxq_removed,
                actual_phase |-> efct_rx_header(rxq_ptr_to_pkt_id(ptr.next)),
                refcnt |-> st.refcnt[pkt_id_to_global_superbuf_ix(
                                       rxq_ptr_to_pkt_id(ptr.prev))],
                emitted |-> header]
      ev == [type |-> "RX", q_id |-> qid,
             rq_id |-> efct_poll_rx_rq_id(ptr), flags |-> "SOP"]
  IN  IF ~header
        THEN [st EXCEPT !.stop = "no_header", !.log = Append(@, entry)]
        ELSE efct_poll_rx_loop(
               [st EXCEPT !.evs = Append(@, ev),
                          !.at = Append(@, i),
                          !.log = Append(@, entry),
                          !.rxq_ptr[qid] = [prev |-> ptr.next,
                                            next |-> U32Inc(ptr.next)],
                          !.rxq_removed = @ + 1],
               qid, i + 1, evs_len, op_ok)

\* the whole of efct_poll_rx as a function of the state before the call
PollRx(qid, evs_len, op_ok) == efct_poll_rx_loop(RxState, qid, 0, evs_len, op_ok)

RqIds(evs) == [k \in 1 .. Len(evs) |-> evs[k].rq_id]

SeqRange(s) == {s[k] : k \in 1 .. Len(s)}

(***************************************************************************)
(* efct_poll_rx, efct_vi.c:528-580.                                        *)
(***************************************************************************)
\* the state the poll leaves
efct_poll_rx_apply(r) ==
  /\ rxq_ptr' = r.rxq_ptr
  /\ shm_rxq' = r.shm_rxq
  /\ shm_freeq' = r.shm_freeq
  /\ refcnt' = r.refcnt
  /\ rxq_removed' = r.rxq_removed
  /\ rxq_config_generation' = r.rxq_config_generation
  /\ roll_hist' = r.roll_hist
  /\ eagain_first' = r.eagain_first
  /\ rel_since' = r.rel_since
  /\ free_since' = r.free_since
  /\ emitted' = [q \in Qids |->
                   emitted[q] \o
                     RqIds(SelectSeq(r.evs, LAMBDA ev : ev.q_id = q))]
  /\ inflight' = inflight \cup SeqRange(RqIds(r.evs))
  /\ UNCHANGED <<superbuf_pkts, shm_config_generation, hdr,
                 k_free, k_phase, posted, nic_w>>

efct_poll_rx_result(r, qid) ==
  /\ efct_poll_rx_apply(r)
  /\ last' = [Call("poll_rx", Len(r.evs), "none") EXCEPT
                !.stop = r.stop, !.log = r.log, !.pre_roll = r.pre_roll]

efct_poll_rx(qid, evs_len, op_ok) ==
  IF superbuf_pkts[qid] = 0
    THEN /\ last' = [Call("poll_rx", 0, "none") EXCEPT !.stop = "inactive"]
         /\ UNCHANGED rx_vars
    ELSE efct_poll_rx_result(PollRx(qid, evs_len, op_ok), qid)

(***************************************************************************)
(* superbuf_free, efct_vi.c:91-105: the slot is written, then the new      *)
(* added is published.  The result is the new free ring of the queue.      *)
(***************************************************************************)
superbuf_free(freeq, sbid) ==
  [freeq EXCEPT !.q[freeq.added % RingSize] = sbid, !.added = @ + 1]

\* faulty variant of the two stores: added is published before the slot is
\* written
superbuf_free_step_wrong(freeq, sbid, added, step) ==
  IF step = 1
    THEN [freeq EXCEPT !.added = added + 1]
    ELSE [freeq EXCEPT !.q[added % RingSize] = sbid]

\* the two stores of superbuf_free one by one, with the kernel free to run
\* between them: line 102 writes the slot at the added read in line 96, and
\* line 104, after the write barrier, publishes added + 1
superbuf_free_step(freeq, sbid, added, step) ==
  IF step = 1
    THEN [freeq EXCEPT !.q[added % RingSize] = sbid]
    ELSE [freeq EXCEPT !.added = added + 1]

(***************************************************************************)
(* efct_vi_rxpkt_release, efct_vi.c:841-848, called with the id of a       *)
(* packet that was emitted.  The assertions of lines 843 and 101 end the   *)
(* call with a fault.                                                      *)
(***************************************************************************)
\* the test of line 845 on the decremented refcount
\* faulty variant of the test of line 845: frees one release early
efct_vi_rxpkt_release_frees_wrong(refcnt_after) == refcnt_after <= 1

efct_vi_rxpkt_release_frees(refcnt_after) == refcnt_after = 0

\* whole says whether the free of line 846 runs to its end in this step or
\* stops after its first store
efct_vi_rxpkt_release_to(pkt_id, whole) ==
  LET gix == pkt_id_to_global_superbuf_ix(pkt_id)
      qix == pkt_id_to_rxq_ix(pkt_id)
      sbid == pkt_id_to_local_superbuf_ix(pkt_id)
      freeq == shm_freeq[qix]
  IN  /\ IF refcnt[gix] = 0
           THEN /\ last' = Call("release", 0, "refcnt_underflow")
                /\ UNCHANGED rx_vars
         ELSE IF /\ efct_vi_rxpkt_release_frees(refcnt[gix] - 1)
                 /\ freeq.added - freeq.removed >= RingSize
           THEN /\ last' = Call("release", 0, "freeq_overflow")
                /\ UNCHANGED rx_vars
         ELSE /\ refcnt' = [refcnt EXCEPT ![gix] = @ - 1]
              /\ shm_freeq' =
                   IF ~efct_vi_rxpkt_release_frees(refcnt[gix] - 1)
                     THEN shm_freeq
                   ELSE IF whole
                     THEN [shm_freeq EXCEPT
                             ![qix] = superbuf_free(freeq, sbid)]
                   ELSE [shm_freeq EXCEPT
                           ![qix] = superbuf_free_step(freeq, sbid,
                                                       freeq.added, 1)]
              /\ inflight' = inflight \ {pkt_id}
              /\ rel_since' = [rel_since EXCEPT ![gix] = @ + 1]
              /\ free_since' = IF efct_vi_rxpkt_release_frees(refcnt[gix] - 1)
                                 THEN [free_since EXCEPT ![gix] = @ + 1]
                                 ELSE free_since
              /\ last' = Call("release", 0, "none")
              /\ UNCHANGED <<superbuf_pkts, rxq_config_generation, rxq_ptr,
                             rxq_removed, shm_rxq, shm_config_generation,
                             hdr, k_free, k_phase, posted, nic_w, emitted,
                             roll_hist, eagain_first>>

efct_vi_rxpkt_release(pkt_id) == efct_vi_rxpkt_release_to(pkt_id, TRUE)

\* the release up to the first store of its free, if it frees
efct_vi_rxpkt_release_begin(pkt_id) ==
  LET gix == pkt_id_to_global_superbuf_ix(pkt_id)
      qix == pkt_id_to_rxq_ix(pkt_id)
  IN  /\ pc.at = "idle"
      /\ efct_vi_rxpkt_release_to(pkt_id, FALSE)
      /\ pc' = IF /\ refcnt[gix] /= 0
                  /\ efct_vi_rxpkt_release_frees(refcnt[gix] - 1)
                  /\ shm_freeq[qix].added - shm_freeq[qix].removed < RingSize
                 THEN [pc EXCEPT !.at = "free", !.qid = qix,
                                 !.sbid = pkt_id_to_local_superbuf_ix(pkt_id),
                                 !.added = shm_freeq[qix].added]
                 ELSE pc

\* the second store of the free, and the return of the release
efct_vi_rxpkt_release_end ==
  /\ pc.at = "free"
  /\ shm_freeq' = [shm_freeq EXCEPT
                     ![pc.qid] = superbuf_free_step(@, pc.sbid, pc.added, 2)]
  /\ pc' = [pc EXCEPT !.at = "idle", !.qid = 0, !.sbid = 0, !.added = 0]
  /\ last' = Call("release", 0, "none")
  /\ UNCHANGED <<superbuf_pkts, rxq_config_generation, rxq_ptr, rxq_removed,
                 refcnt, shm_rxq, shm_config_generation, hdr, k_free, k_phase,
                 posted, nic_w, emitted, inflight, roll_hist, eagain_first,
                 rel_since, free_since>>

(***************************************************************************)
(* efct_ef_vi_receive_init, efct_vi.c:489-494: the application posts no RX *)
(* buffers on an EFCT VI.                                                  *)
(***************************************************************************)
efct_ef_vi_receive_init ==
  /\ last' = Call("receive_init", -ENOSYS, "none")
  /\ UNCHANGED <<rx_vars, rx_ctl>>

(***************************************************************************)
(* What became of the refresh of queue q in the poll of this step: the     *)
(* poll refreshed when it changed the cached generation, and the refresh   *)
(* failed when the poll stopped on it.                                     *)
(***************************************************************************)
RefreshOutcome(q) ==
  refresh_last' =
    IF rxq_config_generation'[q] /= rxq_config_generation[q]
      THEN [refresh_last EXCEPT
              ![q] = [tried |-> TRUE, ok |-> last'.stop /= "refresh",
                      at |-> Len(emitted[q])]]
      ELSE refresh_last

(***************************************************************************)
(* efct_vi_attach_rxq, efct_vi.c:780-827.  alloc_rc and mmap_rc are the    *)
(* results of ci_resource_alloc and ci_resource_mmap.                      *)
(***************************************************************************)
max_efct_rxq == Cardinality(Qids)

\* faulty variant: the slot is set up before the results of the kernel's
\* allocation and of the mmap are looked at
efct_vi_attach_rxq_stores_wrong(rc) == rc /= -ENOSPC

\* the stores of lines 814-824 are reached when none of the returns of lines
\* 791, 804 and 811 was taken
efct_vi_attach_rxq_stores(rc) == rc = 0

efct_vi_attach_rxq(alloc_rc, mmap_rc) ==
  LET inactive == {ix \in Qids : superbuf_pkts[ix] = 0}
      ix == CHOOSE i \in inactive : \A j \in inactive : i <= j
      rc == IF inactive = {} THEN -ENOSPC
            ELSE IF alloc_rc < 0 THEN alloc_rc
            ELSE mmap_rc
  IN  /\ last' = Call("attach", rc, "none")
      /\ IF ~efct_vi_attach_rxq_stores(rc)
           THEN UNCHANGED rx_vars
           ELSE /\ rxq_config_generation' =
                     [rxq_config_generation EXCEPT
                        ![ix] = shm_config_generation[ix] - 1]
                /\ superbuf_pkts' = [superbuf_pkts EXCEPT ![ix] = SuperbufPkts]
                /\ rxq_ptr' = [rxq_ptr EXCEPT
                                 ![ix].next = U32(0, 1 + SuperbufPkts)]
                /\ UNCHANGED <<rxq_removed, refcnt, shm_rxq, shm_freeq,
                               shm_config_generation, hdr, k_free, k_phase,
                               posted, nic_w, emitted, inflight, roll_hist,
                               eagain_first, rel_since, free_since>>

(***************************************************************************)
(* The kernel and the NIC, as the specification describes them.            *)
(*                                                                         *)
(* The kernel publishes a superbuffer it holds on the fill ring, with the  *)
(* sentinel the NIC will write into its headers; the sentinel of a         *)
(* superbuffer flips on every use, and memory starts with the sentinel     *)
(* opposite to the first use.  The NIC writes the headers of the published *)
(* superbuffers in fill-ring order, index 0 upwards.  The header at a      *)
(* position carries the metadata of the packet before it, so packet k of   *)
(* the stream is complete when header k + 1 is written.                    *)
(***************************************************************************)
KernelPublish(q, sb) ==
  /\ superbuf_pkts[q] /= 0
  /\ sb \in k_free[q]
  /\ Len(posted[q]) < MaxPosts
  /\ shm_rxq[q].added - shm_rxq[q].removed < RingSize
  /\ shm_rxq' = [shm_rxq EXCEPT
                   ![q].q[shm_rxq[q].added % RingSize] =
                      sb + k_phase[q][sb] * Pow2(SENTINEL_BIT_IN_SBID),
                   ![q].added = @ + 1]
  /\ posted' = [posted EXCEPT ![q] = Append(@, <<sb, k_phase[q][sb]>>)]
  /\ k_free' = [k_free EXCEPT ![q] = @ \ {sb}]
  /\ k_phase' = [k_phase EXCEPT ![q][sb] = 1 - @]
  /\ UNCHANGED last
  /\ UNCHANGED <<superbuf_pkts, rxq_config_generation, rxq_ptr, rxq_removed,
                 refcnt, shm_freeq, shm_config_generation, hdr, nic_w,
                 emitted, inflight, roll_hist, eagain_first, rel_since,
                 free_since>>

KernelReclaim(q) ==
  LET freeq == shm_freeq[q]
  IN  /\ freeq.added /= freeq.removed
      /\ k_free' = [k_free EXCEPT
                      ![q] = @ \cup {freeq.q[freeq.removed % RingSize]}]
      /\ shm_freeq' = [shm_freeq EXCEPT ![q].removed = @ + 1]
      /\ UNCHANGED last
      /\ UNCHANGED <<superbuf_pkts, rxq_config_generation, rxq_ptr,
                     rxq_removed, refcnt, shm_rxq, shm_config_generation,
                     hdr, k_phase, posted, nic_w, emitted, inflight,
                     roll_hist, eagain_first, rel_since, free_since>>

KernelBumpGeneration(q) ==
  /\ superbuf_pkts[q] /= 0
  /\ shm_config_generation[q] < MaxGen
  /\ shm_config_generation' = [shm_config_generation EXCEPT ![q] = @ + 1]
  /\ UNCHANGED last
  /\ UNCHANGED <<superbuf_pkts, rxq_config_generation, rxq_ptr, rxq_removed,
                 refcnt, shm_rxq, shm_freeq, hdr, k_free, k_phase, posted,
                 nic_w, emitted, inflight, roll_hist, eagain_first, rel_since,
                 free_since>>

NicWriteHeader(q) ==
  LET use == nic_w[q] \div SuperbufPkts
      idx == nic_w[q] % SuperbufPkts
      sb == posted[q][use + 1][1]
      phase == posted[q][use + 1][2]
  IN  /\ use < Len(posted[q])
      /\ hdr' = [hdr EXCEPT ![q * CI_EFCT_MAX_SUPERBUFS + sb][idx] = phase]
      /\ nic_w' = [nic_w EXCEPT ![q] = @ + 1]
      /\ UNCHANGED last
      /\ UNCHANGED <<superbuf_pkts, rxq_config_generation, rxq_ptr,
                     rxq_removed, refcnt, shm_rxq, shm_freeq,
                     shm_config_generation, k_free, k_phase, posted, emitted,
                     inflight, roll_hist, eagain_first, rel_since, free_since>>

(***************************************************************************)
(*                      The CTPIO transmit engine                          *)
(***************************************************************************)
Min(a, b) == IF a <= b THEN a ELSE b

\* q->mask of the TX descriptor ring
txq_mask == Pow2(TxRingBits) - 1

\* the width of the sequence field of a TX completion event, scaled
EFCT_TX_EVENT_SEQUENCE_WIDTH == SeqBits

\* the CTPIO aperture, scaled to four alignment units so that ct_added wraps it
EFCT_TX_APERTURE == 4 * EFCT_TX_ALIGNMENT

\* entries of the event ring; vi->evq_mask is its size in bytes less one
EvqEntries == Pow2(EvqBits)
evq_mask == EvqEntries * EF_VI_EV_SIZE - 1

\* values of ct_fifo_bytes the kernel may give the VI
FifoSizes == {2 * EFCT_TX_ALIGNMENT - EFCT_TX_HEADER_BYTES, 2 * EFCT_TX_ALIGNMENT}

\* the request id the application passes: the number of the transmit
DmaIds == {txq_added + 1}

\* block lengths of the iovecs the application passes
BlockLens == {1, 7, EFCT_TX_ALIGNMENT - EFCT_TX_HEADER_BYTES}

RECURSIVE SeqsUpTo(_, _)
\* the sequences over S of length at most n
SeqsUpTo(S, n) ==
  IF n = 0 THEN {<<>>}
  ELSE SeqsUpTo(S, n - 1) \cup
       {Append(s, x) : s \in {t \in SeqsUpTo(S, n - 1) : Len(t) = n - 1}, x \in S}

RECURSIVE SumSeq(_)
SumSeq(s) == IF s = <<>> THEN 0 ELSE Head(s) + SumSeq(Tail(s))

\* the fields of the TX state that a transmit writes
TxProgramState == <<txq_added, txq_ct_added, txq_descriptors, txq_ids>>

(***************************************************************************)
(* ef_vi_transmit_space_bytes is defined in a header that is not part of   *)
(* the source set; the specification gives the FIFO capacity less the      *)
(* bytes between ct_removed and ct_added.                                  *)
(***************************************************************************)
ef_vi_transmit_space_bytes == ct_fifo_bytes - (txq_ct_added - txq_ct_removed)

(***************************************************************************)
(* efct_tx_check, efct_vi.c:215-224.                                       *)
(***************************************************************************)
\* the BUG_ON of lines 220-221
efct_tx_check_ring_too_small ==
  (txq_mask + 1) <
    (ct_fifo_bytes + EFCT_TX_HEADER_BYTES) \div EFCT_TX_ALIGNMENT

\* the comparison of line 223
\* faulty variant of the comparison of line 223: strict
efct_tx_has_space_wrong(space, len) == space > len

efct_tx_has_space(space, len) == space >= len

\* faulty variant of efct_tx_check: no space test at all
efct_tx_check_wrong(len) == TRUE

efct_tx_check(len) == efct_tx_has_space(ef_vi_transmit_space_bytes, len)

(***************************************************************************)
(* The transient state of one transmit, efct_vi.c:173-183 and 227-278:     *)
(* aperture is the byte offset of the next write in the aperture, tail_len *)
(* the number of bytes waiting for a full word.                            *)
(***************************************************************************)
efct_tx_init ==
  [aperture |-> txq_ct_added % EFCT_TX_APERTURE, tail_len |-> 0]

\* efct_tx_word, lines 245-248: one 64-bit write
efct_tx_word(tx) == [tx EXCEPT !.aperture = @ + 8]

\* lines 253-265 of efct_tx_block: bytes that complete the waiting tail
efct_tx_block_flush(tx, tail_len, len) ==
  IF tail_len = 8
    THEN [tx |-> [efct_tx_word(tx) EXCEPT !.tail_len = 0], len |-> len]
    ELSE [tx |-> [tx EXCEPT !.tail_len = tail_len], len |-> len]

efct_tx_block_tail(tx, len) ==
  IF tx.tail_len = 0
    THEN [tx |-> tx, len |-> len]
    ELSE efct_tx_block_flush(tx, tx.tail_len + Min(len, 8 - tx.tail_len),
                             len - Min(len, 8 - tx.tail_len))

\* lines 267-277 of efct_tx_block: whole words, then the bytes left over
efct_tx_block_words(r) ==
  [aperture |-> r.tx.aperture + 8 * (r.len \div 8),
   tail_len |-> r.tx.tail_len + (r.len % 8)]

\* faulty variant of efct_tx_block: the left-over bytes are dropped
efct_tx_block_wrong(tx, len) ==
  [aperture |-> tx.aperture + 8 * (len \div 8), tail_len |-> tx.tail_len]

efct_tx_block(tx, len) == efct_tx_block_words(efct_tx_block_tail(tx, len))

RECURSIVE efct_tx_blocks(_, _, _)
\* the loop of lines 380-381 over the blocks i .. Len(iov)
efct_tx_blocks(tx, iov, i) ==
  IF i > Len(iov) THEN tx
  ELSE efct_tx_blocks(efct_tx_block(tx, iov[i]), iov, i + 1)

RECURSIVE efct_tx_pad(_)
\* the padding loop of lines 292-293
efct_tx_pad(tx) ==
  IF tx.aperture % EFCT_TX_ALIGNMENT /= 0 THEN efct_tx_pad(efct_tx_word(tx))
  ELSE tx

\* lines 290-293 of efct_tx_complete: the transient state at line 295
efct_tx_flush(tx) ==
  efct_tx_pad(IF tx.tail_len /= 0 THEN efct_tx_word(tx) ELSE tx)

\* what one transmit call leaves in the log of last
TxEntry(iov, dma_id, space, start, end, pre) ==
  [blocks |-> Len(iov), head |-> IF iov = <<>> THEN 0 ELSE iov[1],
   len |-> SumSeq(iov), dma_id |-> dma_id, space |-> space,
   start |-> start, end |-> end, added |-> txq_added,
   ct_added |-> txq_ct_added, pre |-> pre]

(***************************************************************************)
(* efct_tx_complete, efct_vi.c:281-303, with tx the transient state after  *)
(* the header word and the blocks.                                         *)
(***************************************************************************)
efct_tx_complete(op, iov, tx, dma_id) ==
  LET i == txq_added % (txq_mask + 1)
      start == txq_ct_added % EFCT_TX_APERTURE
      len == efct_tx_flush(tx).aperture - start
  IN  /\ txq_descriptors' = [txq_descriptors EXCEPT ![i] = len % 65536]
      /\ txq_ids' = [txq_ids EXCEPT ![i] = dma_id]
      /\ txq_ct_added' = txq_ct_added + len
      /\ txq_added' = txq_added + 1
      /\ tx_exact' = (tx_exact \/ (SumSeq(iov) = ef_vi_transmit_space_bytes
                                     /\ SumSeq(iov) > 0))
      /\ last' = [Call(op, 0, "none") EXCEPT
                    !.log = <<TxEntry(iov, dma_id, ef_vi_transmit_space_bytes,
                                      start, start + len, <<>>)>>]
      /\ UNCHANGED <<ct_fifo_bytes, txq_removed, txq_previous,
                     txq_ct_removed, evq_ptr, evq, nic_done, nic_evq_w>>

\* the return of -EAGAIN, lines 351-352 and 374-375: nothing was written
efct_tx_eagain(op, iov, dma_id) ==
  /\ last' = [Call(op, -EAGAIN, "none") EXCEPT
                !.log = <<TxEntry(iov, dma_id, ef_vi_transmit_space_bytes,
                                  efct_tx_init.aperture,
                                  efct_tx_init.aperture, TxProgramState)>>]
  /\ UNCHANGED tx_vars

\* a BUG_ON of the transmit path failed
efct_tx_fault(op, fault) ==
  /\ last' = Call(op, 0, fault)
  /\ UNCHANGED tx_vars

(***************************************************************************)
(* efct_ef_vi_transmit, efct_vi.c:345-361.                                 *)
(***************************************************************************)
efct_ef_vi_transmit(len, dma_id) ==
  IF efct_tx_check_ring_too_small
    THEN efct_tx_fault("transmit", "txq_too_small")
  ELSE IF ~efct_tx_check(len)
    THEN efct_tx_eagain("transmit", <<len>>, dma_id)
  ELSE efct_tx_complete("transmit", <<len>>,
                        efct_tx_block(efct_tx_word(efct_tx_init), len), dma_id)

(***************************************************************************)
(* efct_ef_vi_transmitv, efct_vi.c:363-386: iov is the sequence of the     *)
(* block lengths.                                                          *)
(***************************************************************************)
efct_ef_vi_transmitv(iov, dma_id) ==
  IF efct_tx_check_ring_too_small
    THEN efct_tx_fault("transmitv", "txq_too_small")
  ELSE IF ~efct_tx_check(SumSeq(iov))
    THEN efct_tx_eagain("transmitv", iov, dma_id)
  ELSE efct_tx_complete("transmitv", iov,
                        efct_tx_blocks(efct_tx_word(efct_tx_init), iov, 1),
                        dma_id)

(***************************************************************************)
(* efct_tx_get_event, efct_vi.c:306-314: the entry at evq_ptr, or NULL     *)
(* (FALSE) if its phase is not the one expected there.  ptr is a 32-bit    *)
(* value; the slot and the phase depend on it modulo twice the ring size,  *)
(* which divides 2^32.                                                     *)
(***************************************************************************)
EvqSlot(ptr) == (ptr % (evq_mask + 1)) \div EF_VI_EV_SIZE

\* the values of the uint32_t evq_ptr, scaled: 2^32 in the code, a multiple
\* of twice the size of the ring
EvqPtrSpan == 4 * (evq_mask + 1)

\* faulty variant of line 310: the lap of the pointer is not looked at
efct_tx_expect_phase_wrong(ptr) ==
  IF (ptr % (evq_mask + 1)) \div (evq_mask + 1) /= 0 THEN 1 ELSE 0

efct_tx_expect_phase(ptr) ==
  IF (ptr % (2 * (evq_mask + 1))) \div (evq_mask + 1) /= 0 THEN 1 ELSE 0

efct_tx_get_event(ptr) == evq[EvqSlot(ptr)].phase = efct_tx_expect_phase(ptr)

(***************************************************************************)
(* efct_tx_handle_event, efct_vi.c:323-343.  st holds previous, ct_removed *)
(* and the fault of the BUG_ON of line 334.                                *)
(***************************************************************************)
seq_mask == Pow2(EFCT_TX_EVENT_SEQUENCE_WIDTH) - 1

\* the value the loop of line 333 runs previous up to
\* faulty variant of the target of line 333: stops one packet short
efct_tx_handle_event_target_wrong(seq) == seq % (seq_mask + 1)

efct_tx_handle_event_target(seq) == (seq + 1) % (seq_mask + 1)

\* faulty variant of lines 335-336: the slot is read after the increment
efct_tx_handle_event_step_wrong(st) ==
  [st EXCEPT !.ct_removed =
                @ + txq_descriptors[(st.previous + 1) % (txq_mask + 1)],
             !.previous = @ + 1]

\* lines 335-336: one slot is reclaimed
efct_tx_handle_event_step(st) ==
  [st EXCEPT !.ct_removed =
                @ + txq_descriptors[st.previous % (txq_mask + 1)],
             !.previous = @ + 1]

\* faulty variant of the loop of lines 333-337: one slot is reclaimed per
\* event, and previous is set to the packet after the one the event names
efct_tx_handle_event_loop_wrong(st, target) ==
  IF st.previous % (seq_mask + 1) = target THEN st
  ELSE [st EXCEPT !.ct_removed =
                     @ + txq_descriptors[st.previous % (txq_mask + 1)],
                  !.previous =
                     @ + ((target + seq_mask + 1 - (@ % (seq_mask + 1)))
                            % (seq_mask + 1))]

RECURSIVE efct_tx_handle_event_loop(_, _)
efct_tx_handle_event_loop(st, target) ==
  IF st.previous % (seq_mask + 1) = target THEN st
  ELSE IF st.previous = txq_added
    THEN [st EXCEPT !.fault = "previous_is_added"]
  ELSE efct_tx_handle_event_loop(efct_tx_handle_event_step(st), target)

\* the event written to ev_out and the record of the call
efct_tx_handle_event_out(st, before, event) ==
  [st EXCEPT
     !.evs = Append(@, [type |-> "TX", q_id |-> event.label,
                        flags |-> "CTPIO", desc_id |-> st.previous]),
     !.log = Append(@, [seq |-> event.seq, previous |-> before.previous,
                        ct_removed |-> before.ct_removed,
                        new_previous |-> st.previous,
                        new_ct_removed |-> st.ct_removed,
                        desc_id |-> st.previous])]

efct_tx_handle_event(st, event) ==
  efct_tx_handle_event_out(
    efct_tx_handle_event_loop(st, efct_tx_handle_event_target(event.seq)),
    st, event)

(***************************************************************************)
(* efct_poll_tx, efct_vi.c:582-612.                                        *)
(***************************************************************************)
TxPollState ==
  [evq_ptr |-> evq_ptr, previous |-> txq_previous,
   ct_removed |-> txq_ct_removed, evs |-> <<>>, log |-> <<>>, n |-> 0,
   fault |-> "none", at |-> <<>>]

RECURSIVE efct_poll_tx_loop(_, _, _)
RECURSIVE efct_poll_tx_event(_, _, _, _)

efct_poll_tx_loop(st, i, evs_len) ==
  IF i >= evs_len \/ st.fault /= "none" THEN [st EXCEPT !.n = i]
  ELSE IF ~efct_tx_get_event(st.evq_ptr) THEN [st EXCEPT !.n = i]
  ELSE efct_poll_tx_event(st, evq[EvqSlot(st.evq_ptr)], i, evs_len)

efct_poll_tx_event(st, event, i, evs_len) ==
  efct_poll_tx_loop(
    [(IF event.type = "TX"
        THEN [efct_tx_handle_event(st, event) EXCEPT !.at = Append(@, i)]
        ELSE st)
       EXCEPT !.evq_ptr = (@ + EF_VI_EV_SIZE) % EvqPtrSpan],
    i + 1, evs_len)

PollTx(evs_len) == efct_poll_tx_loop(TxPollState, 0, evs_len)

\* the state the poll leaves
efct_poll_tx_apply(r) ==
  /\ evq_ptr' = r.evq_ptr
  /\ txq_previous' = r.previous
  /\ txq_ct_removed' = r.ct_removed
  /\ UNCHANGED <<ct_fifo_bytes, txq_added, txq_removed, txq_ct_added,
                 txq_descriptors, txq_ids, evq, nic_done, nic_evq_w,
                 tx_exact>>

efct_poll_tx_result(r) ==
  IF r.fault /= "none"
    THEN /\ last' = Call("poll_tx", 0, r.fault)
         /\ UNCHANGED tx_vars
    ELSE /\ efct_poll_tx_apply(r)
         /\ last' = [Call("poll_tx", r.n, "none") EXCEPT !.log = r.log]

\* faulty variant of line 590: the entry at evq_ptr is looked at
efct_poll_tx_overrun_wrong(ptr) == ~efct_tx_get_event(ptr)

\* the condition of the BUG_ON of line 590
efct_poll_tx_overrun(ptr) == ~efct_tx_get_event(ptr - EF_VI_EV_SIZE)

efct_poll_tx(evs_len) ==
  IF efct_poll_tx_overrun(evq_ptr)
    THEN /\ last' = Call("poll_tx", 0, "evq_overrun")
         /\ UNCHANGED tx_vars
    ELSE efct_poll_tx_result(PollTx(evs_len))

(***************************************************************************)
(* The three pollers of an EFCT VI, efct_vi.c:614-637.  efct_poll_rx and   *)
(* efct_poll_tx are passed evs + n and evs_len - n: their loops run here   *)
(* from n to evs_len, on indices of the caller's array.                    *)
(***************************************************************************)
\* faulty variant of the call of line 624: the whole length is passed again
efct_poll_tx_len_wrong(evs_len, n) == evs_len

\* the length passed to efct_poll_tx in lines 624 and 635
efct_poll_tx_len(evs_len, n) == evs_len - n

\* efct_poll_rx(vi, qid, evs + n, evs_len - n) with n the events in st
efct_poll_rx_from(st, qid, evs_len, op_ok) ==
  IF superbuf_pkts[qid] = 0 THEN st
  ELSE efct_poll_rx_loop(st, qid, Len(st.evs), evs_len, op_ok)

\* the loop of lines 632-633 from queue i on
RECURSIVE efct_poll_generic_rx(_, _, _, _)
efct_poll_generic_rx(st, i, evs_len, op_ok) ==
  IF i >= max_efct_rxq THEN st
  ELSE efct_poll_generic_rx(efct_poll_rx_from(st, i, evs_len, op_ok),
                            i + 1, evs_len, op_ok)

\* efct_poll_tx(vi, evs + n, len), as a function of the state
efct_poll_tx_from(len) ==
  IF ~efct_tx_get_event(evq_ptr - EF_VI_EV_SIZE)
    THEN [TxPollState EXCEPT !.fault = "evq_overrun"]
    ELSE PollTx(len)

\* the indices that efct_poll_tx writes when it is passed evs + n
EvsFrom(n, at) == [k \in 1 .. Len(at) |-> n + at[k]]

\* RX events in rx, then efct_poll_tx
efct_poll_rx_then_tx(op, rx, evs_len) ==
  LET n == Len(rx.evs)
      tx == efct_poll_tx_from(efct_poll_tx_len(evs_len, n))
  IN  /\ efct_poll_rx_apply(rx)
      /\ IF tx.fault /= "none"
           THEN /\ last' = [Call(op, n, tx.fault) EXCEPT
                              !.arg = evs_len, !.at = rx.at]
                /\ UNCHANGED tx_vars
           ELSE /\ efct_poll_tx_apply(tx)
                /\ last' = [Call(op, n + tx.n, "none") EXCEPT
                              !.arg = evs_len,
                              !.at = rx.at \o EvsFrom(n, tx.at)]

efct_ef_eventq_poll_1rx(evs_len, op_ok) ==
  LET rx == efct_poll_rx_from(RxState, 0, evs_len, op_ok)
  IN  /\ efct_poll_rx_apply(rx)
      /\ last' = [Call("poll_1rx", Len(rx.evs), "none") EXCEPT
                    !.arg = evs_len, !.at = rx.at]
      /\ UNCHANGED tx_vars

efct_ef_eventq_poll_1rxtx(evs_len, op_ok) ==
  efct_poll_rx_then_tx("poll_1rxtx",
                       efct_poll_rx_from(RxState, 0, evs_len, op_ok), evs_len)

efct_ef_eventq_poll_generic(evs_len, op_ok) ==
  LET rx == efct_poll_generic_rx(RxState, 0, evs_len, op_ok)
  IN  IF vi.vi_txq_mask /= 0
        THEN efct_poll_rx_then_tx("poll_generic", rx, evs_len)
        ELSE /\ efct_poll_rx_apply(rx)
             /\ last' = [Call("poll_generic", Len(rx.evs), "none") EXCEPT
                           !.arg = evs_len, !.at = rx.at]
             /\ UNCHANGED tx_vars

\* the poller that efct_vi_initialise_ops installs, lines 706-718
efct_vi_initialise_ops(vi_flags, vi_txq_mask) ==
  IF "EF_VI_EFCT_UNIQUEUE" \in vi_flags
    THEN IF vi_txq_mask = 0 THEN "efct_ef_eventq_poll_1rx"
         ELSE "efct_ef_eventq_poll_1rxtx"
    ELSE "efct_ef_eventq_poll_generic"

\* ef_eventq_poll: the call through vi->ops.eventq_poll
ef_eventq_poll(evs_len, op_ok) ==
  CASE vi.eventq_poll = "efct_ef_eventq_poll_1rx" ->
         efct_ef_eventq_poll_1rx(evs_len, op_ok)
    [] vi.eventq_poll = "efct_ef_eventq_poll_1rxtx" ->
         efct_ef_eventq_poll_1rxtx(evs_len, op_ok)
    [] vi.eventq_poll = "efct_ef_eventq_poll_generic" ->
         efct_ef_eventq_poll_generic(evs_len, op_ok)

(***************************************************************************)
(* efct_ef_eventq_check_event, efct_vi.c:850-853, with efct_tx_check_event *)
(* (317-320) and efct_rx_check_event (151-162).  efct_rx_header computes   *)
(* an address from the packet id (120-129) and efct_rx_next_header reads   *)
(* it with no test of the index: at an index of superbuf_pkts or more the  *)
(* address is in the superbuffer that follows in the address space, which  *)
(* holds another superbuffer's headers or no memory (753-757).  A read is  *)
(* the set of what it can give.                                            *)
(***************************************************************************)
efct_rx_header_read(pkt_id) ==
  LET gix == pkt_id_to_global_superbuf_ix(pkt_id)
      index == pkt_id_to_index_in_superbuf(pkt_id)
      beyond == gix + index \div SuperbufPkts
  IN  IF index < SuperbufPkts
        THEN {[mapped |-> TRUE, sentinel |-> hdr[gix][index]]}
      ELSE {[mapped |-> FALSE, sentinel |-> 0]} \cup
           (IF beyond \in GlobalIxs
              THEN {[mapped |-> TRUE,
                     sentinel |-> hdr[beyond][index % SuperbufPkts]]}
              ELSE {})

\* efct_rx_next_header in efct_rx_check_event: "header", "NULL", or the fault
efct_rx_next_header_read(qid) ==
  LET next == rxq_ptr[qid].next
  IN  {IF ~header.mapped THEN "segv"
       ELSE IF header.sentinel = next.sentinel THEN "header" ELSE "NULL" :
         header \in efct_rx_header_read(rxq_ptr_to_pkt_id(next))}

efct_rxq_is_active(qid) == superbuf_pkts[qid] /= 0

\* the loop of lines 158-160 from queue i on; the queues beyond those of the
\* model are not active
RECURSIVE efct_rx_check_event_loop(_)
efct_rx_check_event_loop(i) ==
  IF i \notin Qids THEN {"false"}
  ELSE IF ~efct_rxq_is_active(i) THEN efct_rx_check_event_loop(i + 1)
  ELSE UNION {IF h = "header" THEN {"true"}
              ELSE IF h = "segv" THEN {"segv"}
              ELSE efct_rx_check_event_loop(i + 1) :
                h \in efct_rx_next_header_read(i)}

efct_rx_check_event ==
  IF vi.vi_rxq_mask = 0 THEN {"false"}
  ELSE IF "EF_VI_EFCT_UNIQUEUE" \in vi.vi_flags
    THEN IF ~efct_rxq_is_active(0) THEN {"false"}
         ELSE {IF h = "header" THEN "true"
               ELSE IF h = "segv" THEN "segv" ELSE "false" :
                 h \in efct_rx_next_header_read(0)}
  ELSE efct_rx_check_event_loop(0)

efct_tx_check_event == evq_mask /= 0 /\ efct_tx_get_event(evq_ptr)

efct_ef_eventq_check_event ==
  /\ \E out \in (IF efct_tx_check_event THEN {"true"}
                 ELSE efct_rx_check_event) :
       last' = Call("check_event", IF out = "true" THEN 1 ELSE 0,
                    IF out = "segv" THEN "segv" ELSE "none")
  /\ UNCHANGED <<rx_vars, tx_vars, rx_ctl>>

(***************************************************************************)
(* The operations an EFCT VI does not provide, efct_vi.c:392-403, 464-487  *)
(* and 664-677: each returns its error and writes nothing.  receive_init   *)
(* (489-494) is efct_ef_vi_receive_init above.  efct_ef_vi_transmit_push   *)
(* (388-390) has an empty body.                                            *)
(***************************************************************************)
\* faulty variant of the table: the default alternative is selected
efct_unsupported_rc_wrong ==
  [op \in {"transmit_pio", "transmit_copy_pio", "transmit_alt_select",
           "transmit_alt_select_default", "transmit_alt_stop",
           "transmit_alt_go", "transmit_alt_discard", "transmit_memcpy",
           "transmit_memcpy_sync"} |->
     IF op = "transmit_alt_select_default" THEN 0 ELSE -EOPNOTSUPP]

\* what each of these functions returns
efct_unsupported_rc ==
  [op \in {"transmit_pio", "transmit_copy_pio", "transmit_alt_select",
           "transmit_alt_select_default", "transmit_alt_stop",
           "transmit_alt_go", "transmit_alt_discard", "transmit_memcpy",
           "transmit_memcpy_sync"} |-> -EOPNOTSUPP]

efct_unsupported(op) ==
  /\ last' = Call(op, efct_unsupported_rc[op], "none")
  /\ UNCHANGED <<rx_vars, tx_vars, rx_ctl>>

efct_ef_vi_transmit_push ==
  /\ last' = Call("transmit_push", 0, "none")
  /\ UNCHANGED <<rx_vars, tx_vars, rx_ctl>>

(***************************************************************************)
(* The NIC, as the specification describes it: it completes packets in the *)
(* order they were written and reports the last completed one in a TX      *)
(* event, whose sequence is the number of that packet modulo the width of  *)
(* the field.  It writes an event, with the phase of the lap, only while   *)
(* that leaves the entry before the consumer's position untouched.         *)
(***************************************************************************)
\* events the NIC has written and the poller has not consumed
NicPending ==
  ((nic_evq_w * EF_VI_EV_SIZE - evq_ptr) % EvqPtrSpan) \div EF_VI_EV_SIZE

NicComplete(k) ==
  /\ nic_done + k <= txq_added
  /\ NicPending < EvqEntries - 1
  /\ evq' = [evq EXCEPT ![nic_evq_w % EvqEntries] =
               [phase |-> (nic_evq_w \div EvqEntries) % 2, type |-> "TX",
                seq |-> (nic_done + k - 1) % (seq_mask + 1), label |-> 0]]
  /\ nic_done' = nic_done + k
  /\ nic_evq_w' = nic_evq_w + 1
  /\ last' = Call("nic", 0, "none")
  /\ UNCHANGED <<ct_fifo_bytes, txq_added, txq_removed, txq_previous,
                 txq_ct_added, txq_ct_removed, txq_descriptors, txq_ids,
                 evq_ptr, tx_exact>>

\* the NIC writes an event that reports no completion: a control event or
\* one of a type the poller does not know
NicWriteEvent(type) ==
  /\ evq' = [evq EXCEPT ![nic_evq_w % EvqEntries] =
               [phase |-> (nic_evq_w \div EvqEntries) % 2, type |-> type,
                seq |-> 0, label |-> 0]]
  /\ nic_evq_w' = nic_evq_w + 1
  /\ last' = Call("nic", 0, "none")
  /\ UNCHANGED <<ct_fifo_bytes, txq_added, txq_removed, txq_previous,
                 txq_ct_added, txq_ct_removed, txq_descriptors, txq_ids,
                 evq_ptr, nic_done, tx_exact>>

\* the NIC leaves the entry before the consumer's position untouched
NicEvent(type) == NicPending < EvqEntries - 1 /\ NicWriteEvent(type)

\* the NIC writes while the ring has an entry that holds no unconsumed event
NicFill(type) == NicPending < EvqEntries /\ NicWriteEvent(type)

\* lengths the application passes to efct_ef_vi_transmit: some fixed ones,
\* the space left and one byte more
TxLens ==
  {0, 1, EFCT_TX_ALIGNMENT - EFCT_TX_HEADER_BYTES,
   EFCT_TX_ALIGNMENT - EFCT_TX_HEADER_BYTES + 1} \cup
  {n \in {ef_vi_transmit_space_bytes, ef_vi_transmit_space_bytes + 1} : n >= 0}

Iovs == SeqsUpTo(BlockLens, MaxIov)

\* iovecs the application passes to efct_ef_vi_transmitv: every sequence of at
\* most MaxIov block lengths, and two blocks that make up the space left or
\* one byte more
TxIovs ==
  Iovs \cup
  {<<a, n - a>> : a \in {b \in BlockLens : b <= ef_vi_transmit_space_bytes},
                  n \in {ef_vi_transmit_space_bytes,
                         ef_vi_transmit_space_bytes + 1}}

(***************************************************************************)
(*                  The AF_XDP rings, efxdp_vi.c                           *)
(***************************************************************************)
\* a 32-bit counter of a ring, scaled to CounterBits bits
Wrap(n) == n % Pow2(CounterBits)

\* q->mask of the RX ring of the AF_XDP VI; its TX ring has txq_mask
rxq_mask == Pow2(TxRingBits) - 1

\* the completions one TX event reports at most, scaled
EF_VI_TRANSMIT_BATCH == BatchLen

\* results of vi->xdp_kick, the system call that starts the transmission
KickRcs == {0, -EAGAIN}

\* the request id the application passes with the packet that makes `added`
\* packets, and the address of its buffer
XdpDmaId(added) == Wrap(added) + 1

\* the iovecs the application passes: none, one or two buffers of 64 bytes
XdpIovs(added) ==
  {SubSeq(<<[iov_base |-> XdpDmaId(added), iov_len |-> 64],
            [iov_base |-> XdpDmaId(added), iov_len |-> 64]>>, 1, n) :
     n \in 0 .. 2}

\* the state of the AF_XDP VI that a transmit may write
XdpTxState == <<xdp_txq, xdp_tx>>

\* the state of the AF_XDP VI that a receive_init may write
XdpRxState == <<xdp_rxq, xdp_fr>>

\* faulty variant of the test of lines 45 and 156: the last slot is used too
efxdp_ring_full_wrong(qs, mask) == Wrap(qs.added - qs.removed) > mask

\* the test of efxdp_vi.c:45 and 156 on a queue state and its q->mask
efxdp_ring_full(qs, mask) == Wrap(qs.added - qs.removed) >= mask

(***************************************************************************)
(* efxdp_ef_vi_transmitv_init, efxdp_vi.c:33-54: the new txq and           *)
(* descriptor ring, or the error.                                          *)
(***************************************************************************)
\* faulty variant of the test of line 42: only the empty iovec is refused
efxdp_iov_len_invalid_wrong(iov_len) == iov_len = 0

\* the test of line 42
efxdp_iov_len_invalid(iov_len) == iov_len /= 1

efxdp_ef_vi_transmitv_init(iov, dma_id) ==
  IF efxdp_iov_len_invalid(Len(iov))
    THEN [rc |-> -EINVAL, fault |-> "none", txq |-> xdp_txq,
          desc |-> xdp_tx.desc]
  ELSE IF efxdp_ring_full(xdp_txq, txq_mask)
    THEN [rc |-> -EAGAIN, fault |-> "none", txq |-> xdp_txq,
          desc |-> xdp_tx.desc]
  ELSE IF xdp_txq.ids[xdp_txq.added % (txq_mask + 1)] /= EF_REQUEST_ID_MASK
    THEN [rc |-> 0, fault |-> "id_in_use", txq |-> xdp_txq,
          desc |-> xdp_tx.desc]
  ELSE [rc |-> 0, fault |-> "none",
        txq |-> [xdp_txq EXCEPT
                   !.ids[xdp_txq.added % (txq_mask + 1)] = dma_id,
                   !.added = Wrap(@ + 1)],
        desc |-> [xdp_tx.desc EXCEPT
                    ![xdp_txq.added % (txq_mask + 1)] =
                       [addr |-> Head(iov).iov_base,
                        len |-> Head(iov).iov_len]]]

\* faulty variant of efxdp_tx_kick: previous moves whatever the kick returned
efxdp_tx_kick_wrong(txq, kick_rc) == [txq EXCEPT !.previous = txq.added]

\* efxdp_tx_kick, efxdp_vi.c:25-31
efxdp_tx_kick(txq, kick_rc) ==
  IF kick_rc = 0 THEN [txq EXCEPT !.previous = txq.added] ELSE txq

\* how a call that kicked ended: kicked tells whether it called efxdp_tx_kick
efxdp_kick_outcome(kicked, kick_rc) ==
  IF ~kicked THEN "" ELSE IF kick_rc = 0 THEN "kick_ok" ELSE "kick_failed"

(***************************************************************************)
(* efxdp_ef_vi_transmitv, efxdp_vi.c:74-83, with efxdp_ef_vi_transmit_push *)
(* (56-60).  The log holds the number of kicks and the state before, stop  *)
(* how the kick ended.                                                     *)
(***************************************************************************)
efxdp_ef_vi_transmitv(iov, dma_id, kick_rc) ==
  LET r == efxdp_ef_vi_transmitv_init(iov, dma_id)
      ok == r.rc = 0 /\ r.fault = "none"
  IN  /\ xdp_txq' = IF ok THEN efxdp_tx_kick(r.txq, kick_rc) ELSE xdp_txq
      /\ xdp_tx' = IF ok
                     THEN [xdp_tx EXCEPT !.desc = r.desc,
                                         !.producer = r.txq.added]
                     ELSE xdp_tx
      /\ last' = [Call("xdp_transmitv", r.rc, r.fault) EXCEPT
                    !.stop = efxdp_kick_outcome(ok, kick_rc),
                    !.log = <<[iov_len |-> Len(iov),
                               kicks |-> IF ok THEN 1 ELSE 0,
                               pre |-> XdpTxState]>>]
      /\ xdp_posts' = IF ok THEN xdp_posts + 1 ELSE xdp_posts
      /\ UNCHANGED <<xdp_rxq, xdp_fr, xdp_rx, xdp_cr>>

(***************************************************************************)
(* efxdp_ef_vi_receive_init and efxdp_ef_vi_receive_push, efxdp_vi.c:      *)
(* 148-170.  The log of receive_init holds the state before.               *)
(***************************************************************************)
efxdp_ef_vi_receive_init(addr, dma_id) ==
  LET i == xdp_rxq.added % (rxq_mask + 1)
      rc == IF efxdp_ring_full(xdp_rxq, rxq_mask) THEN -EAGAIN ELSE 0
      fault == IF rc = 0 /\ xdp_rxq.ids[i] /= EF_REQUEST_ID_MASK
                 THEN "id_in_use" ELSE "none"
      ok == rc = 0 /\ fault = "none"
  IN  /\ xdp_rxq' = IF ok
                      THEN [xdp_rxq EXCEPT !.ids[i] = dma_id,
                                           !.added = Wrap(@ + 1)]
                      ELSE xdp_rxq
      /\ xdp_fr' = IF ok THEN [xdp_fr EXCEPT !.desc[i] = addr] ELSE xdp_fr
      /\ xdp_posts' = IF ok THEN xdp_posts + 1 ELSE xdp_posts
      /\ last' = [Call("xdp_receive_init", rc, fault) EXCEPT
                    !.log = <<[pre |-> XdpRxState]>>]
      /\ UNCHANGED <<xdp_txq, xdp_rx, xdp_tx, xdp_cr>>

efxdp_ef_vi_receive_push ==
  /\ xdp_fr' = [xdp_fr EXCEPT !.producer = xdp_rxq.added]
  /\ last' = Call("xdp_receive_push", 0, "none")
  /\ UNCHANGED <<xdp_rxq, xdp_txq, xdp_rx, xdp_tx, xdp_cr, xdp_posts>>

(***************************************************************************)
(* efxdp_ef_eventq_poll, efxdp_vi.c:177-252.  st holds the rxq, the two    *)
(* local copies cons of the consumer counters and the events written.  The *)
(* call records its events, its evs_len and how its kick ended, if any.    *)
(***************************************************************************)
XdpPollState ==
  [rxq |-> xdp_rxq, rx_cons |-> xdp_rx.consumer, cr_cons |-> xdp_cr.consumer,
   evs |-> <<>>, at |-> <<>>]

\* the body of the loop of lines 195-212
efxdp_poll_rx_step(st) ==
  [st EXCEPT
     !.at = Append(@, Len(st.evs)),
     !.evs = Append(@, [type |-> "RX", q_id |-> 0,
                        rq_id |-> st.rxq.ids[st.rxq.removed % (rxq_mask + 1)],
                        desc_id |-> 0]),
     !.rxq.ids[st.rxq.removed % (rxq_mask + 1)] = EF_REQUEST_ID_MASK,
     !.rxq.removed = Wrap(@ + 1),
     !.rx_cons = Wrap(@ + 1)]

\* faulty variant of the condition of line 212: the producer is not looked at
efxdp_poll_rx_more_wrong(st, evs_len) == Len(st.evs) /= evs_len

\* the condition of line 212
efxdp_poll_rx_more(st, evs_len) ==
  st.rx_cons /= xdp_rx.producer /\ Len(st.evs) /= evs_len

RECURSIVE efxdp_poll_rx_loop(_, _)
efxdp_poll_rx_loop(st, evs_len) ==
  IF efxdp_poll_rx_more(st, evs_len)
    THEN efxdp_poll_rx_loop(efxdp_poll_rx_step(st), evs_len)
    ELSE st

\* lines 185-219
efxdp_poll_rx(st, evs_len) ==
  IF 0 < evs_len /\ st.rx_cons /= xdp_rx.producer
    THEN efxdp_poll_rx_loop(efxdp_poll_rx_step(st), evs_len)
    ELSE st

\* faulty variant of lines 229-232: every step is a whole batch
efxdp_poll_tx_cons_wrong(cons, prod) == Wrap(cons + EF_VI_TRANSMIT_BATCH)

\* the position the completion consumer moves to, lines 229-232
efxdp_poll_tx_cons(cons, prod) ==
  IF Wrap(prod - cons) <= EF_VI_TRANSMIT_BATCH
    THEN prod ELSE Wrap(cons + EF_VI_TRANSMIT_BATCH)

\* the body of the loop of lines 228-239
efxdp_poll_tx_step(st) ==
  [st EXCEPT
     !.cr_cons = efxdp_poll_tx_cons(@, xdp_cr.producer),
     !.at = Append(@, Len(st.evs)),
     !.evs = Append(@, [type |-> "TX", q_id |-> 0,
                        rq_id |-> EF_REQUEST_ID_MASK,
                        desc_id |-> efxdp_poll_tx_cons(st.cr_cons,
                                                       xdp_cr.producer)])]

RECURSIVE efxdp_poll_tx_loop(_, _)
efxdp_poll_tx_loop(st, evs_len) ==
  IF st.cr_cons /= xdp_cr.producer /\ Len(st.evs) /= evs_len
    THEN efxdp_poll_tx_loop(efxdp_poll_tx_step(st), evs_len)
    ELSE st

\* lines 222-249, without the kick
efxdp_poll_tx(st, evs_len) ==
  IF Len(st.evs) < evs_len /\ st.cr_cons /= xdp_cr.producer
    THEN efxdp_poll_tx_loop(efxdp_poll_tx_step(st), evs_len)
    ELSE st

\* lines 217-251: the consumer index of the RX ring is stored, the completion
\* ring is looked at and the call returns; rx is the state after line 212
efxdp_poll_publish(rx, evs_len, kick_rc) ==
  LET tx == efxdp_poll_tx(rx, evs_len)
      kick == /\ Len(rx.evs) < evs_len
              /\ xdp_cr.consumer /= xdp_cr.producer
              /\ xdp_txq.previous /= xdp_txq.added
  IN  /\ xdp_rxq' = tx.rxq
      /\ xdp_rx' = [xdp_rx EXCEPT !.consumer = tx.rx_cons]
      /\ xdp_cr' = [xdp_cr EXCEPT !.consumer = tx.cr_cons]
      /\ xdp_txq' = IF kick THEN efxdp_tx_kick(xdp_txq, kick_rc) ELSE xdp_txq
      /\ last' = [Call("xdp_poll", Len(tx.evs), "none") EXCEPT
                    !.stop = efxdp_kick_outcome(kick, kick_rc),
                    !.log = tx.evs, !.arg = evs_len, !.at = tx.at]
      /\ UNCHANGED <<xdp_fr, xdp_tx, xdp_posts>>

efxdp_ef_eventq_poll(evs_len, kick_rc) ==
  efxdp_poll_publish(efxdp_poll_rx(XdpPollState, evs_len), evs_len, kick_rc)

(***************************************************************************)
(* ef_vi_transmit_unbundle is not part of the source set.  As the comment  *)
(* of efxdp_vi.c:241-243 and the specification have it, the application    *)
(* passes it a TX event, and it takes the ids of the slots from removed up *)
(* to the event's desc_id out of the id array.  The TX events of one poll  *)
(* name increasing positions; the application passes them all, which ends  *)
(* where the last one points.                                              *)
(***************************************************************************)
RECURSIVE ef_vi_transmit_unbundle_loop(_, _)
ef_vi_transmit_unbundle_loop(txq, stop) ==
  IF txq.removed % (txq_mask + 1) = stop THEN txq
  ELSE ef_vi_transmit_unbundle_loop(
         [txq EXCEPT !.ids[txq.removed % (txq_mask + 1)] = EF_REQUEST_ID_MASK,
                     !.removed = Wrap(@ + 1)],
         stop)

ef_vi_transmit_unbundle ==
  /\ last.op = "xdp_poll"
  /\ \E k \in 1 .. Len(last.log) : last.log[k].type = "TX"
  /\ xdp_txq' = ef_vi_transmit_unbundle_loop(
                  xdp_txq,
                  last.log[Len(last.log)].desc_id % (txq_mask + 1))
  /\ last' = Call("xdp_unbundle", 0, "none")
  /\ UNCHANGED <<xdp_rxq, xdp_fr, xdp_rx, xdp_tx, xdp_cr, xdp_posts>>

(***************************************************************************)
(* The kernel's side of the AF_XDP socket, as the specification describes  *)
(* it: it fills the buffers of the fill ring in order and passes them on   *)
(* the RX ring, and it sends the packets of the TX ring in order and       *)
(* passes their buffers on the completion ring.                            *)
(***************************************************************************)
XdpKernelRx ==
  /\ xdp_fr.consumer /= xdp_fr.producer
  /\ xdp_rx' = [xdp_rx EXCEPT
                  !.desc[xdp_rx.producer % (rxq_mask + 1)] =
                     [addr |-> xdp_fr.desc[xdp_fr.consumer % (rxq_mask + 1)],
                      len |-> 64],
                  !.producer = Wrap(@ + 1)]
  /\ xdp_fr' = [xdp_fr EXCEPT !.consumer = Wrap(@ + 1)]
  /\ last' = Call("xdp_kernel", 0, "none")
  /\ UNCHANGED <<xdp_rxq, xdp_txq, xdp_tx, xdp_cr, xdp_posts>>

XdpKernelTx ==
  /\ xdp_tx.consumer /= xdp_tx.producer
  /\ xdp_cr' = [xdp_cr EXCEPT
                  !.desc[xdp_cr.producer % (txq_mask + 1)] =
                     xdp_tx.desc[xdp_tx.consumer % (txq_mask + 1)].addr,
                  !.producer = Wrap(@ + 1)]
  /\ xdp_tx' = [xdp_tx EXCEPT !.consumer = Wrap(@ + 1)]
  /\ last' = Call("xdp_kernel", 0, "none")
  /\ UNCHANGED <<xdp_rxq, xdp_txq, xdp_fr, xdp_rx, xdp_posts>>

(***************************************************************************)
(* efxdp_ef_eventq_poll in the steps in which it reads and writes the      *)
(* memory it shares with the kernel, efxdp_vi.c:184-219: it reads the      *)
(* consumer and the producer index of the RX ring (lines 187-188), reads    *)
(* one descriptor per iteration of its loop (195-212) and stores the       *)
(* consumer index (217); the rest of the call follows in the step of the   *)
(* store.  pc holds the locals cons, prod and n with evs; the kernel may   *)
(* run between any two steps.  pc also keeps the consumer index, rxq.removed*)
(* and the descriptors that the call found.                                *)
(***************************************************************************)
\* no call is in progress; cons0 and removed0 are the RX consumer index and
\* rxq.removed that the last poll of the AF_XDP VI found
PcIdle(cons0, removed0) ==
  [at |-> "idle", cons |-> 0, prod |-> 0, evs_len |-> 0, evs |-> <<>>,
   cons0 |-> cons0, removed0 |-> removed0, desc0 |-> <<>>,
   qid |-> 0, sbid |-> 0, added |-> 0, i |-> 0, iters |-> 0]

\* the locals of the poll as the loop body of lines 195-212 takes them
XdpPollLocals ==
  [rxq |-> xdp_rxq, rx_cons |-> pc.cons, cr_cons |-> xdp_cr.consumer,
   evs |-> pc.evs, at |-> [k \in 1 .. Len(pc.evs) |-> k - 1]]

\* lines 185-190
efxdp_poll_begin(evs_len, kick_rc) ==
  /\ pc.at = "idle"
  /\ IF 0 < evs_len /\ xdp_rx.consumer /= xdp_rx.producer
       THEN /\ pc' = [PcIdle(xdp_rx.consumer, xdp_rxq.removed) EXCEPT
                        !.at = "read", !.cons = xdp_rx.consumer,
                        !.prod = xdp_rx.producer, !.evs_len = evs_len,
                        !.desc0 = xdp_rx.desc]
            /\ last' = Call("xdp_poll_begin", 0, "none")
            /\ UNCHANGED xdp_vars
       ELSE /\ pc' = PcIdle(xdp_rx.consumer, xdp_rxq.removed)
            /\ efxdp_poll_publish(XdpPollState, evs_len, kick_rc)

\* faulty variant of the loop: every iteration stores the consumer index
efxdp_poll_read_wrong ==
  /\ pc.at = "read"
  /\ LET st == efxdp_poll_rx_step(XdpPollLocals)
     IN  /\ xdp_rxq' = st.rxq
         /\ xdp_rx' = [xdp_rx EXCEPT !.consumer = st.rx_cons]
         /\ pc' = [pc EXCEPT
                     !.cons = st.rx_cons,
                     !.evs = st.evs,
                     !.at = IF st.rx_cons /= pc.prod
                               /\ Len(st.evs) /= pc.evs_len
                              THEN "read" ELSE "store"]
  /\ last' = Call("xdp_poll_read", 0, "none")
  /\ UNCHANGED <<xdp_txq, xdp_fr, xdp_tx, xdp_cr, xdp_posts>>

\* one iteration of the loop of lines 195-212
efxdp_poll_read ==
  /\ pc.at = "read"
  /\ LET st == efxdp_poll_rx_step(XdpPollLocals)
     IN  /\ xdp_rxq' = st.rxq
         /\ pc' = [pc EXCEPT
                     !.cons = st.rx_cons,
                     !.evs = st.evs,
                     !.at = IF st.rx_cons /= pc.prod
                               /\ Len(st.evs) /= pc.evs_len
                              THEN "read" ELSE "store"]
  /\ last' = Call("xdp_poll_read", 0, "none")
  /\ UNCHANGED <<xdp_txq, xdp_fr, xdp_rx, xdp_tx, xdp_cr, xdp_posts>>

\* lines 214-251
efxdp_poll_store(kick_rc) ==
  /\ pc.at = "store"
  /\ pc' = PcIdle(pc.cons0, pc.removed0)
  /\ efxdp_poll_publish(XdpPollLocals, pc.evs_len, kick_rc)

\* the kernel passes a filled buffer while the RX ring has a slot that the
\* consumer index does not cover
XdpKernelRxRoom ==
  /\ Wrap(xdp_rx.producer - xdp_rx.consumer) <= rxq_mask
  /\ XdpKernelRx
  /\ UNCHANGED pc

(***************************************************************************)
(* The loops of efct_poll_rx (efct_vi.c:541-577) and efct_poll_tx (592-609)*)
(* one iteration per step, with the kernel and the NIC free to run between *)
(* two iterations.  pc holds the loop variable i, the number of times the  *)
(* loop body was entered (iters), evs_len, the queue, and the log of the   *)
(* iterations; after the return it keeps them.                             *)
(***************************************************************************)
\* faulty variant of the loop test: the body is entered once more
efct_poll_more_wrong(i, evs_len) == i <= evs_len

\* the test `i < evs_len` of lines 541 and 592
efct_poll_more(i, evs_len) == i < evs_len

\* the call returns (or ends at a BUG_ON): its record, and pc at rest
efct_poll_return(op, entered, log, fault) ==
  /\ pc' = [pc EXCEPT !.at = "idle", !.iters = @ + entered, !.evs = log]
  /\ last' = [Call(op, IF fault = "none" THEN pc.i ELSE 0, fault) EXCEPT
                !.arg = pc.evs_len, !.log = log]

\* efct_poll_tx up to its loop, lines 584-590
efct_poll_tx_begin(evs_len) ==
  /\ pc.at = "idle"
  /\ IF efct_poll_tx_overrun(evq_ptr)
       THEN /\ last' = [Call("poll_tx", 0, "evq_overrun") EXCEPT
                         !.arg = evs_len]
            /\ pc' = [PcIdle(pc.cons0, pc.removed0) EXCEPT
                        !.evs_len = evs_len]
       ELSE /\ pc' = [PcIdle(pc.cons0, pc.removed0) EXCEPT
                        !.at = "poll_tx", !.evs_len = evs_len]
            /\ UNCHANGED last
  /\ UNCHANGED tx_vars

\* the loop test of line 592 and, if it holds, one run of the body
efct_poll_tx_iter ==
  /\ pc.at = "poll_tx"
  /\ IF ~efct_poll_more(pc.i, pc.evs_len)
       THEN /\ efct_poll_return("poll_tx", 0, pc.evs, "none")
            /\ UNCHANGED tx_vars
     ELSE IF ~efct_tx_get_event(evq_ptr)
       THEN /\ efct_poll_return("poll_tx", 1, pc.evs, "none")
            /\ UNCHANGED tx_vars
     ELSE LET r == efct_poll_tx_loop(TxPollState, 0, 1)
          IN  IF r.fault /= "none"
                THEN /\ efct_poll_return("poll_tx", 1, pc.evs \o r.log,
                                          r.fault)
                     /\ UNCHANGED tx_vars
                ELSE /\ efct_poll_tx_apply(r)
                     /\ pc' = [pc EXCEPT !.i = @ + 1, !.iters = @ + 1,
                                         !.evs = @ \o r.log]
                     /\ UNCHANGED last

\* efct_poll_rx up to its loop, lines 530-539
efct_poll_rx_begin(qid, evs_len) ==
  /\ pc.at = "idle"
  /\ IF ~efct_rxq_is_active(qid)
       THEN /\ last' = [Call("poll_rx", 0, "none") EXCEPT
                         !.stop = "inactive", !.arg = evs_len]
            /\ pc' = [PcIdle(pc.cons0, pc.removed0) EXCEPT
                        !.evs_len = evs_len, !.qid = qid]
       ELSE /\ pc' = [PcIdle(pc.cons0, pc.removed0) EXCEPT
                        !.at = "poll_rx", !.evs_len = evs_len, !.qid = qid]
            /\ UNCHANGED last
  /\ UNCHANGED rx_vars

\* the loop test of line 541 and, if it holds, one run of the body: an
\* iteration that delivers no event ends the call (lines 545-549, 556, 560)
efct_poll_rx_iter(op_ok) ==
  /\ pc.at = "poll_rx"
  /\ IF ~efct_poll_more(pc.i, pc.evs_len)
       THEN /\ efct_poll_return("poll_rx", 0, pc.evs, "none")
            /\ UNCHANGED rx_vars
       ELSE LET r == PollRx(pc.qid, 1, op_ok)
            IN  /\ efct_poll_rx_apply(r)
                /\ IF r.evs = <<>>
                     THEN efct_poll_return("poll_rx", 1, pc.evs \o r.log,
                                           "none")
                     ELSE /\ pc' = [pc EXCEPT !.i = @ + 1, !.iters = @ + 1,
                                              !.evs = @ \o r.log]
                          /\ UNCHANGED last

\* the NIC writes a TX event with the sequence seq, whatever was sent, into
\* a ring that holds no TX event
NicWriteSeq(seq) ==
  /\ NicPending < EvqEntries - 1
  /\ \A i \in 0 .. (EvqEntries - 1) : evq[i].type /= "TX"
  /\ evq' = [evq EXCEPT ![nic_evq_w % EvqEntries] =
               [phase |-> (nic_evq_w \div EvqEntries) % 2, type |-> "TX",
                seq |-> seq, label |-> 0]]
  /\ nic_evq_w' = nic_evq_w + 1
  /\ last' = Call("nic", 0, "none")
  /\ UNCHANGED <<ct_fifo_bytes, txq_added, txq_removed, txq_previous,
                 txq_ct_added, txq_ct_removed, txq_descriptors, txq_ids,
                 evq_ptr, nic_done, tx_exact>>

(***************************************************************************)
(* ef_vi_init, vi_init.c:202-238, and ef_vi_init_io, vi_init.c:241-247.    *)
(* ops names the function of the architecture that filled in vi->ops, and  *)
(* inited holds the EF_VI_INITED_* bits that are set.  The log of          *)
(* ef_vi_init holds the architecture it was passed.                        *)
(***************************************************************************)
\* enum ef_vi_arch, and a value outside it
ViArchs ==
  {"EF_VI_ARCH_FALCON", "EF_VI_ARCH_EF10", "EF_VI_ARCH_EF100",
   "EF_VI_ARCH_EFCT", "EF_VI_ARCH_AF_XDP", "out_of_range"}

\* the flags of enum ef_vi_flags that ef_vi_init and the EFCT code read
ViFlags ==
  {"EF_VI_RX_EVENT_MERGE", "EF_VI_RX_PACKED_STREAM", "EF_VI_EFCT_UNIQUEUE"}

\* the ef_vi after memset(vi, 0, sizeof(*vi)), line 206
ViZero ==
  [arch |-> "EF_VI_ARCH_FALCON", vi_flags |-> {}, vi_is_normal |-> FALSE,
   inited |-> {}, ops |-> "none", io |-> "NULL", vi_rxq_mask |-> 0,
   vi_txq_mask |-> 0, eventq_poll |-> "none"]

\* the switch of lines 223-235: the init function called, "none" for default
ef_vi_init_switch(arch) ==
  CASE arch = "EF_VI_ARCH_EF10" -> "ef10_vi_init"
    [] arch = "EF_VI_ARCH_EF100" -> "ef100_vi_init"
    [] arch = "EF_VI_ARCH_AF_XDP" -> "efxdp_vi_init"
    [] OTHER -> "none"

ef_vi_init(arch, ef_vi_flags) ==
  LET init == ef_vi_init_switch(arch)
      set == [ViZero EXCEPT
                !.arch = arch, !.vi_flags = ef_vi_flags,
                !.vi_is_normal = /\ "EF_VI_RX_EVENT_MERGE" \notin ef_vi_flags
                                 /\ "EF_VI_RX_PACKED_STREAM" \notin ef_vi_flags,
                !.ops = init]
  IN  /\ vi' = IF init = "none" THEN set
                ELSE [set EXCEPT !.inited = @ \cup {"EF_VI_INITED_NIC"}]
      /\ last' = [Call("ef_vi_init", IF init = "none" THEN -EINVAL ELSE 0,
                       "none") EXCEPT !.log = <<[arch |-> arch]>>]

ef_vi_init_io(io_area) ==
  LET fault == IF "EF_VI_INITED_IO" \in vi.inited THEN "inited_io"
               ELSE IF vi.arch /= "EF_VI_ARCH_AF_XDP" /\ io_area = "NULL"
                 THEN "io_area_null"
               ELSE "none"
  IN  /\ vi' = IF fault = "none"
                 THEN [vi EXCEPT !.io = io_area,
                                 !.inited = @ \cup {"EF_VI_INITED_IO"}]
                 ELSE vi
      /\ last' = Call("ef_vi_init_io", 0, fault)

(***************************************************************************)
(* ef_vi_rxq_reinit and ef_vi_txq_reinit, vi_init.c:108-146.  q is a queue *)
(* state with its id array; st holds it with the ids passed to the         *)
(* callback so far.  The log of the call holds those ids, and pre_roll the *)
(* queue before the call.                                                  *)
(***************************************************************************)
RECURSIVE ef_vi_rxq_reinit_loop(_, _)
ef_vi_rxq_reinit_loop(st, mask) ==
  IF ~(st.q.removed < st.q.added) THEN st
  ELSE IF st.q.ids[st.q.removed % (mask + 1)] = EF_REQUEST_ID_MASK
    THEN [st EXCEPT !.fault = "id_unused"]
  ELSE ef_vi_rxq_reinit_loop(
         [st EXCEPT !.cbs = Append(@, st.q.ids[st.q.removed % (mask + 1)]),
                    !.q.ids[st.q.removed % (mask + 1)] = EF_REQUEST_ID_MASK,
                    !.q.removed = @ + 1],
         mask)

\* faulty variant of line 121: added is left as it was
ef_vi_rxq_reinit_reset_wrong(q) == [q EXCEPT !.removed = 0]

\* line 121
ef_vi_rxq_reinit_reset(q) == [q EXCEPT !.added = 0, !.removed = 0]

ReinitCall(op, r, before) ==
  [Call(op, 0, r.fault) EXCEPT
     !.log = r.cbs, !.stop = last.op, !.pre_roll = [NoRoll EXCEPT !.prog = before]]

ef_vi_rxq_reinit ==
  LET r == ef_vi_rxq_reinit_loop([q |-> xdp_rxq, cbs |-> <<>>,
                                  fault |-> "none"], rxq_mask)
  IN  /\ xdp_rxq' = IF r.fault = "none"
                      THEN ef_vi_rxq_reinit_reset(r.q) ELSE xdp_rxq
      /\ last' = ReinitCall("rxq_reinit", r, xdp_rxq)
      /\ UNCHANGED <<xdp_txq, xdp_fr, xdp_rx, xdp_tx, xdp_cr, xdp_posts>>

RECURSIVE ef_vi_txq_reinit_loop(_, _)
ef_vi_txq_reinit_loop(st, mask) ==
  IF ~(st.q.removed < st.q.added) THEN st
  ELSE ef_vi_txq_reinit_loop(
         [st EXCEPT
            !.cbs = IF st.q.ids[st.q.removed % (mask + 1)] /= EF_REQUEST_ID_MASK
                      THEN Append(@, st.q.ids[st.q.removed % (mask + 1)])
                      ELSE @,
            !.q.ids[st.q.removed % (mask + 1)] = EF_REQUEST_ID_MASK,
            !.q.removed = @ + 1],
         mask)

\* line 143
ef_vi_txq_reinit_reset(q) ==
  [q EXCEPT !.previous = 0, !.added = 0, !.removed = 0]

\* ef_vi_txq_reinit of the queue q: the queue after the call
ef_vi_txq_reinit_of(q) ==
  ef_vi_txq_reinit_loop([q |-> q, cbs |-> <<>>, fault |-> "none"], txq_mask)

\* on the VI over AF_XDP
ef_vi_txq_reinit ==
  /\ xdp_txq' = ef_vi_txq_reinit_reset(ef_vi_txq_reinit_of(xdp_txq).q)
  /\ last' = ReinitCall("txq_reinit", ef_vi_txq_reinit_of(xdp_txq), xdp_txq)
  /\ UNCHANGED <<xdp_rxq, xdp_fr, xdp_rx, xdp_tx, xdp_cr, xdp_posts>>

\* the TX queue state of the EFCT VI
EfctTxq ==
  [added |-> txq_added, removed |-> txq_removed, previous |-> txq_previous,
   ids |-> txq_ids]

\* on the EFCT VI
efct_txq_reinit ==
  /\ txq_added' = ef_vi_txq_reinit_reset(ef_vi_txq_reinit_of(EfctTxq).q).added
  /\ txq_removed' =
       ef_vi_txq_reinit_reset(ef_vi_txq_reinit_of(EfctTxq).q).removed
  /\ txq_previous' =
       ef_vi_txq_reinit_reset(ef_vi_txq_reinit_of(EfctTxq).q).previous
  /\ txq_ids' = ef_vi_txq_reinit_of(EfctTxq).q.ids
  /\ last' = ReinitCall("txq_reinit", ef_vi_txq_reinit_of(EfctTxq), EfctTxq)
  /\ UNCHANGED <<ct_fifo_bytes, txq_ct_added, txq_ct_removed,
                 txq_descriptors, evq_ptr, evq, nic_done, nic_evq_w,
                 tx_exact>>

(***************************************************************************)
(* Packets with a cPacket trailer, as tests/unit/header/ci/internal/        *)
(* ip_timestamp.c builds them.  bytes is the frame from PKT_START, tagged   *)
(* is unused_padding[0], tags lists the calls that built the extension      *)
(* tags, oldest first.                                                      *)
(***************************************************************************)
ETH_HLEN == 14

\* ip_timestamp.c:17-21
pkt_init ==
  [bytes |-> <<>>, tagged |-> 0, tags |-> <<>>, stage |-> "init",
   sec |-> 0, nsec |-> 0, ts |-> [sec |-> 0, nsec |-> 0, nsec_frac |-> 0],
   steps |-> 0]

\* ip_timestamp.c:23-28
pkt_append(pkt, data) == [pkt EXCEPT !.bytes = @ \o data]

Fill(b, n) == [i \in 1 .. n |-> b]

\* ip_timestamp.c:30-46 with len = 0: Ethernet, IPv4 and UDP headers
pkt_udp(pkt) ==
  pkt_append(pkt,
    Fill(0, 12) \o <<8, 0>> \o
    <<69, 0, 0, 28>> \o Fill(0, 5) \o <<17>> \o Fill(0, 10) \o
    <<0, 0, 0, 0, 0, 8, 0, 0>>)

\* ip_timestamp.c:48-54
pkt_fcs(pkt) == IF pkt.tagged = 0 THEN pkt_append(pkt, Fill(0, 4)) ELSE pkt

\* the bytes of a value, most significant first
RECURSIVE BeBytes(_, _)
BeBytes(v, n) ==
  IF n = 0 THEN <<>> ELSE Append(BeBytes(v \div 256, n - 1), v % 256)

\* ip_timestamp.c:56-66
pkt_cpacket(pkt, sec, nsec) ==
  pkt_append(pkt_fcs(pkt),
             BeBytes(sec, 4) \o BeBytes(nsec, 4) \o
             <<(IF pkt.tagged /= 0 THEN 2 ELSE 0), 0, 0, 0>>)

\* ip_timestamp.c:68-79: the three fields occupy separate bits of the byte
pkt_tag_header(pkt, type, len) ==
  [pkt_append(pkt, <<type + (IF pkt.tagged /= 0 THEN 0 ELSE 32) + len * 64>>)
     EXCEPT !.tagged = 1]

\* ip_timestamp.c:80-89
pkt_primary(pkt, type, value) ==
  pkt_tag_header(pkt_append(pkt_fcs(pkt), BeBytes(value, 3)), type, 0)

\* ip_timestamp.c:91-99
pkt_primary_ex(pkt, type, data) ==
  pkt_tag_header(pkt_append(pkt_fcs(pkt), data), type, Len(data) \div 4)

\* ip_timestamp.c:101-104
pkt_subnano(pkt, value) == pkt_primary(pkt, 1, value)

\* faulty variant of lines 115-120: the length is written as its low bits
pkt_secondary_wrong(pkt, type, data) ==
  LET len == Len(data) \div 4 - 1
  IN  pkt_tag_header(
        pkt_append(pkt_append(pkt_fcs(pkt), data),
                   <<type \div 256, type % 256, 0>>),
        31, len % 4)

\* ip_timestamp.c:106-121
pkt_secondary(pkt, type, data) ==
  LET len == Len(data) \div 4 - 1
  IN  pkt_tag_header(
        pkt_append(pkt_append(pkt_fcs(pkt), data),
                   <<type \div 256, type % 256, len \div 4>>),
        31, len % 4)

\* ip_timestamp.c:245-247: three bytes and the header of a tag of eleven
pkt_bogus(pkt, data) == pkt_tag_header(pkt_append(pkt, data), 4, 2)

(***************************************************************************)
(* ci_rx_pkt_timestamp_cpacket (ci/internal/ip_timestamp.h), as the        *)
(* specification describes it.  The trailer is the last twelve bytes of    *)
(* what follows the IP datagram; the extension tags lie before it and      *)
(* after the four bytes of the frame check sequence, each ending in its    *)
(* header byte.                                                            *)
(***************************************************************************)
RECURSIVE BeValue(_)
BeValue(bs) ==
  IF bs = <<>> THEN 0
  ELSE 256 * BeValue(SubSeq(bs, 1, Len(bs) - 1)) + bs[Len(bs)]

\* end of the IP datagram: its total length is at bytes 2-3 of the header
cpacket_l3_end(bytes) ==
  ETH_HLEN + BeValue(SubSeq(bytes, ETH_HLEN + 3, ETH_HLEN + 4))

cpacket_present(bytes) == Len(bytes) - cpacket_l3_end(bytes) >= 12

\* bytes of the tag whose header is at pos, the header included
cpacket_tag_size(bytes, pos, lo) ==
  LET tag == bytes[pos]
  IN  IF tag % 32 = 31
        THEN IF pos - 3 <= lo THEN pos
             ELSE 4 + 4 * (bytes[pos - 1] * 4 + tag \div 64 + 1)
      ELSE 4 + 4 * (tag \div 64)

\* the walk from the tag nearest the trailer towards the frame
RECURSIVE cpacket_walk(_, _, _, _)
cpacket_walk(bytes, pos, lo, steps) ==
  IF pos <= lo THEN [nsec_frac |-> 0, steps |-> steps]
  ELSE LET tag == bytes[pos]
           start == pos - cpacket_tag_size(bytes, pos, lo) + 1
       IN  IF start <= lo THEN [nsec_frac |-> 0, steps |-> steps + 1]
           ELSE IF tag % 32 = 1 /\ tag \div 64 = 0
             THEN [nsec_frac |-> BeValue(SubSeq(bytes, pos - 3, pos - 1)),
                   steps |-> steps + 1]
           ELSE IF (tag \div 32) % 2 = 1
             THEN [nsec_frac |-> 0, steps |-> steps + 1]
           ELSE cpacket_walk(bytes, start - 1, lo, steps + 1)

ci_rx_pkt_timestamp_cpacket(bytes) ==
  IF ~cpacket_present(bytes)
    THEN [sec |-> 0, nsec |-> 0, nsec_frac |-> 0, steps |-> 0]
  ELSE LET t == Len(bytes) - 11
           w == IF (bytes[t + 8] \div 2) % 2 = 1
                  THEN cpacket_walk(bytes, t - 1, cpacket_l3_end(bytes) + 4, 0)
                  ELSE [nsec_frac |-> 0, steps |-> 0]
       IN  [sec |-> BeValue(SubSeq(bytes, t, t + 3)),
            nsec |-> BeValue(SubSeq(bytes, t + 4, t + 7)),
            nsec_frac |-> w.nsec_frac, steps |-> w.steps]

\* values and contents the tests use; the arrays `stuff` are not initialised
CpSecs == {305419896, 1}
\* 0xfedcba98 in the tests; here without its top bit, to fit a signed word
CpNsecs == {2128394904}
CpSubnanos == {5654328, 11122887}
CpStuff == {0, 33}

CpFrame(A) ==
  /\ A
  /\ last' = Call("cpacket", 0, "none")
  /\ UNCHANGED <<rx_vars, tx_vars, xdp_vars, rx_ctl, xdp_accepted, vi, pc>>

\* ip_timestamp.c:132-134
CpStart ==
  CpFrame(/\ cp.stage = "init"
          /\ cp' = [pkt_udp(cp) EXCEPT !.stage = "frame"])

\* one of the calls that append an extension tag
CpTag ==
  CpFrame(
    /\ cp.stage = "frame"
    /\ Len(cp.tags) < MaxTags
    /\ \/ cp' = [pkt_primary(cp, 7, 42) EXCEPT
                   !.tags = Append(@, [kind |-> "primary", value |-> 42])]
       \/ \E v \in CpSubnanos :
            cp' = [pkt_subnano(cp, v) EXCEPT
                     !.tags = Append(@, [kind |-> "subnano", value |-> v])]
       \/ \E b \in CpStuff, n \in {7, 11} :
            cp' = [pkt_primary_ex(cp, 8, Fill(b, n)) EXCEPT
                     !.tags = Append(@, [kind |-> "primary_ex", value |-> n])]
       \/ \E b \in CpStuff, n \in {4, 20} :
            cp' = [pkt_secondary(cp, 42, Fill(b, n)) EXCEPT
                     !.tags = Append(@, [kind |-> "secondary", value |-> n])]
       \/ \E b \in CpStuff :
            \* the length of this tag runs past the start of the tags
            /\ Len(cp.bytes) + 3 - (cpacket_l3_end(cp.bytes) + 4) < 11
            /\ cp' = [pkt_bogus(cp, Fill(b, 3)) EXCEPT
                       !.tags = Append(@, [kind |-> "bogus", value |-> 0])])

\* ip_timestamp.c:155
CpTrailer ==
  CpFrame(/\ cp.stage = "frame"
          /\ \E sec \in CpSecs, nsec \in CpNsecs :
               cp' = [pkt_cpacket(cp, sec, nsec) EXCEPT
                        !.stage = "trailer", !.sec = sec, !.nsec = nsec])

\* ip_timestamp.c:137 and 158: the call under test, on a frame with no
\* bytes after the datagram or on one that ends in a trailer
CpTimestamp ==
  CpFrame(/\ \/ cp.stage = "frame" /\ cp.tags = <<>>
             \/ cp.stage = "trailer"
          /\ LET ts == ci_rx_pkt_timestamp_cpacket(cp.bytes)
             IN  cp' = [cp EXCEPT
                          !.stage = IF cp.stage = "frame" THEN "none"
                                    ELSE "stamped",
                          !.ts = [sec |-> ts.sec, nsec |-> ts.nsec,
                                  nsec_frac |-> ts.nsec_frac],
                          !.steps = ts.steps])

NextCpacket == CpStart \/ CpTag \/ CpTrailer \/ CpTimestamp

(***************************************************************************)
(* The state after ef_vi_init_state (vi_init.c:61-69, 422-465): no RX      *)
(* queue is attached yet, the TX counters are zero, every id slot holds    *)
(* the unused sentinel and the event ring holds all-ones.                  *)
(***************************************************************************)
InitRx ==
  /\ superbuf_pkts = [q \in Qids |-> 0]
  /\ rxq_config_generation = [q \in Qids |-> 0]
  /\ rxq_ptr = [q \in Qids |-> [next |-> U32(0, 0), prev |-> U32(0, 0)]]
  /\ rxq_removed = 0
  /\ rxq_added = 0
  /\ refcnt = [g \in GlobalIxs |-> 0]
  /\ shm_rxq = [q \in Qids |->
                  [q |-> [k \in 0 .. (RingSize - 1) |-> 0],
                   added |-> 0, removed |-> 0]]
  /\ shm_freeq = [q \in Qids |->
                    [q |-> [k \in 0 .. (RingSize - 1) |-> 0],
                     added |-> 0, removed |-> 0]]
  /\ shm_config_generation = [q \in Qids |-> 0]
  /\ hdr = [g \in GlobalIxs |-> [k \in 0 .. (SuperbufPkts - 1) |-> 1]]
  /\ k_free = [q \in Qids |-> Sbids]
  /\ k_phase = [q \in Qids |-> [s \in Sbids |-> 0]]
  /\ posted = [q \in Qids |-> <<>>]
  /\ nic_w = [q \in Qids |-> 0]
  /\ emitted = [q \in Qids |-> <<>>]
  /\ inflight = {}
  /\ roll_hist = [q \in Qids |-> <<>>]
  /\ eagain_first = [q \in Qids |-> FALSE]
  /\ refresh_last = [q \in Qids |-> [tried |-> FALSE, ok |-> TRUE, at |-> 0]]
  /\ rel_since = [g \in GlobalIxs |-> 0]
  /\ free_since = [g \in GlobalIxs |-> 0]

\* the all-ones entry that clearing the event ring leaves
EvqCleared == [phase |-> 1, type |-> "ones", seq |-> seq_mask, label |-> 1]

InitTx ==
  /\ txq_added = 0
  /\ txq_removed = 0
  /\ txq_previous = 0
  /\ txq_ct_added = 0
  /\ txq_ct_removed = 0
  /\ txq_descriptors = [i \in 0 .. txq_mask |-> 0]
  /\ txq_ids = [i \in 0 .. txq_mask |-> EF_REQUEST_ID_MASK]
  /\ evq_ptr = 0
  /\ evq = [i \in 0 .. (EvqEntries - 1) |-> EvqCleared]
  /\ nic_done = 0
  /\ nic_evq_w = 0
  /\ tx_exact = FALSE

\* the newest of the numbers 0 .. p - 1 that is i modulo n, for i < p
Newest(p, i, n) ==
  CHOOSE j \in 0 .. (p - 1) :
    j % n = i /\ \A h \in 0 .. (p - 1) : h % n = i => h <= j

\* the rounds the VI may have behind it: none, or as many as bring previous
\* three short of the wrap of the sequence field
TxPast == {0, Pow2(EFCT_TX_EVENT_SEQUENCE_WIDTH) - 3}

(***************************************************************************)
(* The TX state after p rounds of: a transmit of one byte (efct_vi.c:345-  *)
(* 361), the NIC's completion of that packet, a poll that handles it       *)
(* (efct_vi.c:582-612).  Packet j has request id j + 1 and one alignment   *)
(* unit in the FIFO; event j has sequence j.                               *)
(***************************************************************************)
InitPast(p) ==
  /\ txq_added = p
  /\ txq_removed = 0
  /\ txq_previous = p
  /\ txq_ct_added = p * EFCT_TX_ALIGNMENT
  /\ txq_ct_removed = p * EFCT_TX_ALIGNMENT
  /\ txq_descriptors =
       [i \in 0 .. txq_mask |-> IF i < p THEN EFCT_TX_ALIGNMENT ELSE 0]
  /\ txq_ids =
       [i \in 0 .. txq_mask |->
          IF i < p THEN Newest(p, i, txq_mask + 1) + 1
          ELSE EF_REQUEST_ID_MASK]
  /\ evq_ptr = (p * EF_VI_EV_SIZE) % EvqPtrSpan
  /\ evq =
       [i \in 0 .. (EvqEntries - 1) |->
          IF i < p
            THEN [phase |-> (Newest(p, i, EvqEntries) \div EvqEntries) % 2,
                  type |-> "TX",
                  seq |-> Newest(p, i, EvqEntries) % (seq_mask + 1),
                  label |-> 0]
            ELSE EvqCleared]
  /\ nic_done = p
  /\ nic_evq_w = p
  /\ tx_exact = FALSE

\* the rounds the AF_XDP VI may have behind it: none, or as many as bring its
\* counters two short of their wrap
XdpPast == {0, Pow2(CounterBits) - 2}

(***************************************************************************)
(* The AF_XDP VI after ef_vi_init_state (vi_init.c:61-69, 422-452) and p   *)
(* rounds of: a receive_init and a receive_push, a transmitv, the kernel's *)
(* completion of both, a poll that returns them and an unbundle.  Every    *)
(* counter is p, every id slot is unused, and the descriptor slots hold    *)
(* what the newest round that used them wrote.                             *)
(***************************************************************************)
XdpStale(p, i, n) == IF i < p THEN XdpDmaId(Newest(p, i, n)) ELSE 0

InitXdpRings(p) ==
  /\ xdp_rxq = [added |-> p, removed |-> p,
                ids |-> [i \in 0 .. rxq_mask |-> EF_REQUEST_ID_MASK]]
  /\ xdp_txq = [added |-> p, removed |-> p, previous |-> p,
                ids |-> [i \in 0 .. txq_mask |-> EF_REQUEST_ID_MASK]]
  /\ xdp_fr = [producer |-> p, consumer |-> p,
               desc |-> [i \in 0 .. rxq_mask |-> XdpStale(p, i, rxq_mask + 1)]]
  /\ xdp_rx = [producer |-> p, consumer |-> p,
               desc |-> [i \in 0 .. rxq_mask |->
                           [addr |-> XdpStale(p, i, rxq_mask + 1),
                            len |-> IF i < p THEN 64 ELSE 0]]]
  /\ xdp_tx = [producer |-> p, consumer |-> p,
               desc |-> [i \in 0 .. txq_mask |->
                           [addr |-> XdpStale(p, i, txq_mask + 1),
                            len |-> IF i < p THEN 64 ELSE 0]]]
  /\ xdp_cr = [producer |-> p, consumer |-> p,
               desc |-> [i \in 0 .. txq_mask |-> XdpStale(p, i, txq_mask + 1)]]
  /\ xdp_posts = 0
  /\ xdp_accepted = p
  /\ cp = pkt_init
  /\ pc = PcIdle(p, p)

InitXdp(p) == InitXdpRings(p) /\ vi = ViZero

\* a VI without a CTPIO FIFO
Init ==
  /\ InitRx
  /\ InitTx
  /\ InitXdp(0)
  /\ ct_fifo_bytes = 0
  /\ last = Call("init", 0, "none")

\* a VI with a CTPIO FIFO of one of the sizes
InitCtpio ==
  /\ InitRx
  /\ InitTx
  /\ InitXdp(0)
  /\ ct_fifo_bytes \in FifoSizes
  /\ last = Call("init", 0, "none")

RxCalls ==
  \/ \E a \in {0, -ENOMEM}, m \in {0, -ENOMEM} : efct_vi_attach_rxq(a, m)
  \/ \E q \in Qids, n \in 0 .. MaxEvs, ok \in BOOLEAN :
       /\ Cardinality(inflight) < MaxInflight
       /\ efct_poll_rx(q, n, ok)
  \/ \E p \in inflight : efct_vi_rxpkt_release(p)
  \/ \E q \in Qids, sb \in Sbids : KernelPublish(q, sb)
  \/ \E q \in Qids : KernelReclaim(q)
  \/ \E q \in Qids : NicWriteHeader(q)

NextRx == RxCalls /\ UNCHANGED <<tx_vars, xdp_vars, rx_ctl, side_vars>>

\* the EFCT receive engine with its kernel and NIC; the shared generation
\* keeps the value it has at attach, so the first poll refreshes
SpecRx == Init /\ [][NextRx]_vars

NextRxGen ==
  /\ \/ \E q \in Qids, n \in 0 .. MaxEvs, ok \in BOOLEAN :
          /\ Cardinality(inflight) < MaxInflight
          /\ efct_poll_rx(q, n, ok)
          /\ RefreshOutcome(q)
          /\ UNCHANGED rxq_added
     \/ /\ \/ efct_vi_attach_rxq(0, 0)
           \/ efct_ef_vi_receive_init
           \/ \E q \in Qids, sb \in Sbids : KernelPublish(q, sb)
           \/ \E q \in Qids : NicWriteHeader(q)
           \/ \E q \in Qids : KernelBumpGeneration(q)
        /\ UNCHANGED rx_ctl
  /\ UNCHANGED <<tx_vars, xdp_vars, side_vars>>

\* the receive engine with an application that may release a packet it was
\* given more than once; the kernel reuses no superbuffer
NextRxRelease ==
  /\ \/ efct_vi_attach_rxq(0, 0)
     \/ \E q \in Qids, n \in 0 .. MaxEvs :
          /\ Cardinality(inflight) < MaxInflight
          /\ efct_poll_rx(q, n, TRUE)
     \/ \E q \in Qids : \E p \in SeqRange(emitted[q]) :
          efct_vi_rxpkt_release(p)
     \/ \E q \in Qids, sb \in Sbids : KernelPublish(q, sb)
     \/ \E q \in Qids : NicWriteHeader(q)
  /\ UNCHANGED <<tx_vars, xdp_vars, rx_ctl, side_vars>>

SpecRxRelease == Init /\ [][NextRxRelease]_vars

\* the receive engine whose release is taken store by store, with a kernel
\* that takes superbuffers from the free ring at any time
NextRxFree ==
  /\ \/ /\ pc.at = "idle"
        /\ \/ efct_vi_attach_rxq(0, 0)
           \/ \E q \in Qids, n \in 1 .. MaxEvs :
                /\ Cardinality(inflight) < MaxInflight
                /\ efct_poll_rx(q, n, TRUE)
        /\ UNCHANGED pc
     \/ \E p \in inflight : efct_vi_rxpkt_release_begin(p)
     \/ efct_vi_rxpkt_release_end
     \/ /\ \/ \E q \in Qids, sb \in Sbids : KernelPublish(q, sb)
           \/ \E q \in Qids : KernelReclaim(q)
           \/ \E q \in Qids : NicWriteHeader(q)
        /\ UNCHANGED pc
  /\ UNCHANGED <<tx_vars, xdp_vars, rx_ctl, xdp_accepted, vi, cp>>

SpecRxFree == Init /\ [][NextRxFree]_vars

\* attaches that the kernel may refuse, and polls before and after them
NextRxAttach ==
  /\ \/ \E a \in {0, -ENOMEM}, m \in {0, -EINVAL} : efct_vi_attach_rxq(a, m)
     \/ \E q \in Qids, n \in 0 .. MaxEvs :
          /\ Cardinality(inflight) < MaxInflight
          /\ efct_poll_rx(q, n, TRUE)
     \/ \E q \in Qids, sb \in Sbids : KernelPublish(q, sb)
     \/ \E q \in Qids : NicWriteHeader(q)
  /\ UNCHANGED <<tx_vars, xdp_vars, rx_ctl, side_vars>>

SpecRxAttach == Init /\ [][NextRxAttach]_vars

\* the receive engine with a kernel that also changes the superbuffer
\* mappings, and an application that holds the packets it is given
SpecRxGen == Init /\ [][NextRxGen]_vars

NextTx ==
  /\ \/ \E len \in TxLens, id \in DmaIds :
          txq_added < MaxTx /\ efct_ef_vi_transmit(len, id)
     \/ \E iov \in TxIovs, id \in DmaIds :
          txq_added < MaxTx /\ efct_ef_vi_transmitv(iov, id)
     \/ \E n \in 0 .. MaxEvs : efct_poll_tx(n)
     \/ \E k \in 1 .. (txq_mask + 1) : NicComplete(k)
  /\ UNCHANGED <<rx_vars, xdp_vars, rx_ctl, side_vars>>

\* the EFCT CTPIO transmit engine with its NIC
SpecTx == InitCtpio /\ [][NextTx]_vars

\* values of ct_fifo_bytes with which the TX ring passes the BUG_ON of
\* efct_tx_check: a whole number of alignment units less the frame header,
\* and one byte more than as many alignment units as the ring has entries
RingFifoSizes ==
  {(txq_mask + 1) * EFCT_TX_ALIGNMENT - EFCT_TX_HEADER_BYTES,
   (txq_mask + 1) * EFCT_TX_ALIGNMENT + 1}

\* a VI whose TX ring is the smallest that efct_tx_check accepts for its FIFO
InitRing ==
  /\ InitRx
  /\ InitTx
  /\ InitXdp(0)
  /\ ct_fifo_bytes \in RingFifoSizes
  /\ last = Call("init", 0, "none")

\* transmits of one byte, one more than the ring has entries, and their
\* completions
NextTxRing ==
  /\ \/ \E id \in DmaIds :
          txq_added < txq_mask + 2 /\ efct_ef_vi_transmit(1, id)
     \/ \E n \in 1 .. MaxEvs : efct_poll_tx(n)
     \/ \E k \in 1 .. (txq_mask + 1) : NicComplete(k)
  /\ UNCHANGED <<rx_vars, xdp_vars, rx_ctl, side_vars>>

SpecTxRing == InitRing /\ [][NextTxRing]_vars

\* a VI whose FIFO holds four alignment units, with some rounds behind it
InitCompletions ==
  /\ InitRx
  /\ InitXdp(0)
  /\ \E p \in TxPast : InitPast(p)
  /\ ct_fifo_bytes = 4 * EFCT_TX_ALIGNMENT - EFCT_TX_HEADER_BYTES
  /\ last = Call("init", 0, "none")

\* lengths that fill one and two alignment units
TxLensOneTwo == {1, EFCT_TX_ALIGNMENT - EFCT_TX_HEADER_BYTES + 1}

\* at most MaxTx transmits follow the rounds the VI has behind it
TxBudget ==
  \E p \in TxPast : p <= txq_added /\ txq_added < p + MaxTx

CompletionCalls ==
  \/ \E len \in TxLensOneTwo, id \in DmaIds :
       TxBudget /\ efct_ef_vi_transmit(len, id)
  \/ \E n \in 0 .. MaxEvs : efct_poll_tx(n)
  \/ \E k \in 1 .. (txq_mask + 1) : NicComplete(k)

NextCompletions ==
  CompletionCalls /\ UNCHANGED <<rx_vars, xdp_vars, rx_ctl, side_vars>>

\* completions and their reconciliation, up to and across the wrap of the
\* sequence field
SpecTxCompletions == InitCompletions /\ [][NextCompletions]_vars

ReinitOps == {"rxq_reinit", "txq_reinit"}

\* completions as above and ef_vi_txq_reinit, after which the application
\* makes no other call
NextTxReinit ==
  /\ \/ last.op \notin ReinitOps /\ CompletionCalls
     \/ efct_txq_reinit
  /\ UNCHANGED <<rx_vars, xdp_vars, rx_ctl, side_vars>>

SpecTxReinit == InitCompletions /\ [][NextTxReinit]_vars

\* at most MaxTx events follow the rounds the VI has behind it
EvBudget ==
  \E p \in TxPast : p <= nic_done /\ nic_evq_w < p + MaxTx

\* completions, with a NIC that also writes events of other types
NextTxEvents ==
  /\ \/ \E id \in DmaIds : TxBudget /\ efct_ef_vi_transmit(1, id)
     \/ \E n \in 0 .. MaxEvs : efct_poll_tx(n)
     \/ \E k \in 1 .. (txq_mask + 1) : NicComplete(k)
     \/ \E type \in {"CONTROL", "unknown"} : EvBudget /\ NicEvent(type)
  /\ UNCHANGED <<rx_vars, xdp_vars, rx_ctl, side_vars>>

SpecTxEvents == InitCompletions /\ [][NextTxEvents]_vars

\* polls, with a NIC that may fill every entry of the event ring
NextTxOverrun ==
  /\ \/ \E id \in DmaIds : TxBudget /\ efct_ef_vi_transmit(1, id)
     \/ \E n \in 0 .. MaxEvs : efct_poll_tx(n)
     \/ \E k \in 1 .. (txq_mask + 1) : NicComplete(k)
     \/ \E type \in {"CONTROL", "unknown"} : EvBudget /\ NicFill(type)
  /\ UNCHANGED <<rx_vars, xdp_vars, rx_ctl, side_vars>>

SpecTxOverrun == InitCompletions /\ [][NextTxOverrun]_vars

\* an EFCT VI with or without an RX ring, and with one or several RX queues
InitEfctVi ==
  /\ InitRx
  /\ InitTx
  /\ InitXdpRings(0)
  /\ \E mask \in {0, rxq_mask}, flags \in SUBSET {"EF_VI_EFCT_UNIQUEUE"} :
       vi = [ViZero EXCEPT !.arch = "EF_VI_ARCH_EFCT", !.vi_flags = flags,
                           !.vi_rxq_mask = mask, !.ops = "efct_vi_init"]
  /\ ct_fifo_bytes = 2 * EFCT_TX_ALIGNMENT
  /\ last = Call("init", 0, "none")

\* the receive and the transmit engine of the VI with their pollers, and
\* efct_ef_eventq_check_event
NextCheckEvent ==
  /\ \/ efct_vi_attach_rxq(0, 0) /\ UNCHANGED tx_vars
     \/ \E q \in Qids, n \in 1 .. MaxEvs :
          /\ Cardinality(inflight) < MaxInflight
          /\ efct_poll_rx(q, n, TRUE)
          /\ UNCHANGED tx_vars
     \/ \E q \in Qids, sb \in Sbids : KernelPublish(q, sb) /\ UNCHANGED tx_vars
     \/ \E q \in Qids : NicWriteHeader(q) /\ UNCHANGED tx_vars
     \/ \E id \in DmaIds :
          txq_added < MaxEvs /\ efct_ef_vi_transmit(1, id)
          /\ UNCHANGED rx_vars
     \/ NicComplete(1) /\ UNCHANGED rx_vars
     \/ \E n \in 1 .. MaxEvs : efct_poll_tx(n) /\ UNCHANGED rx_vars
     \/ efct_ef_eventq_check_event
  /\ UNCHANGED <<xdp_vars, rx_ctl, side_vars>>

SpecCheckEvent == InitEfctVi /\ [][NextCheckEvent]_vars

\* the transmit engine and the operations the EFCT VI does not provide
NextEfctOps ==
  /\ \/ CompletionCalls
     \/ \E op \in DOMAIN efct_unsupported_rc : efct_unsupported(op)
     \/ efct_ef_vi_receive_init /\ UNCHANGED tx_vars
     \/ efct_ef_vi_transmit_push
  /\ UNCHANGED <<rx_vars, xdp_vars, rx_ctl, side_vars>>

SpecEfctOps == InitCompletions /\ [][NextEfctOps]_vars

\* a VI over AF_XDP, with some rounds behind it
InitXdpVi ==
  /\ InitRx
  /\ InitTx
  /\ \E p \in XdpPast : InitXdp(p)
  /\ ct_fifo_bytes = 0
  /\ last = Call("init", 0, "none")

\* the application passes at most MaxXdp packets and buffers to the VI, and
\* it may call on a full ring at any time
XdpBudget(q) ==
  xdp_posts < MaxXdp \/ Wrap(q.added - q.removed) >= txq_mask

XdpCalls ==
  \/ \E iov \in XdpIovs(xdp_txq.added), kick_rc \in KickRcs :
       /\ XdpBudget(xdp_txq)
       /\ efxdp_ef_vi_transmitv(iov, XdpDmaId(xdp_txq.added), kick_rc)
  \/ /\ XdpBudget(xdp_rxq)
     /\ efxdp_ef_vi_receive_init(XdpDmaId(xdp_rxq.added),
                                 XdpDmaId(xdp_rxq.added))
  \/ efxdp_ef_vi_receive_push
  \/ \E n \in 0 .. MaxEvs, kick_rc \in KickRcs :
       efxdp_ef_eventq_poll(n, kick_rc)
  \/ ef_vi_transmit_unbundle
  \/ XdpKernelRx
  \/ XdpKernelTx

NextXdp == XdpCalls /\ UNCHANGED <<rx_vars, tx_vars, rx_ctl, side_vars>>

\* the AF_XDP VI with its kernel
SpecXdp == InitXdpVi /\ [][NextXdp]_vars

\* the RX side of the AF_XDP VI, its poll taken step by step, with the kernel
NextXdpRx ==
  /\ \/ /\ pc.at = "idle"
        /\ XdpBudget(xdp_rxq)
        /\ efxdp_ef_vi_receive_init(XdpDmaId(xdp_rxq.added),
                                    XdpDmaId(xdp_rxq.added))
        /\ UNCHANGED pc
     \/ /\ pc.at = "idle"
        /\ efxdp_ef_vi_receive_push
        /\ UNCHANGED pc
     \/ \E n \in 0 .. MaxEvs : efxdp_poll_begin(n, 0)
     \/ efxdp_poll_read
     \/ efxdp_poll_store(0)
     \/ XdpKernelRxRoom
  /\ UNCHANGED <<rx_vars, tx_vars, rx_ctl, xdp_accepted, vi, cp>>

SpecXdpRx == InitXdpVi /\ [][NextXdpRx]_vars

(***************************************************************************)
(* The polls step by step.  The VI is an EFCT VI with an RX ring, an EFCT  *)
(* VI with a TX ring, or a VI over AF_XDP.  The TX state of the EFCT VI is  *)
(* any: previous at one of the pasts and added up to a whole range of the  *)
(* sequence field ahead of it (in the library the ring may have more       *)
(* entries than the sequence field has values).  The NIC reports one       *)
(* completion, with any sequence, and control events before and after it.  *)
(***************************************************************************)
PollStepVis ==
  {[ViZero EXCEPT !.arch = "EF_VI_ARCH_EFCT", !.vi_rxq_mask = rxq_mask],
   [ViZero EXCEPT !.arch = "EF_VI_ARCH_EFCT", !.vi_txq_mask = txq_mask],
   [ViZero EXCEPT !.arch = "EF_VI_ARCH_AF_XDP", !.vi_rxq_mask = rxq_mask,
                  !.vi_txq_mask = txq_mask]}

\* previous is p and d packets are in flight
InitTxAny(p, d) ==
  /\ txq_added = p + d
  /\ txq_removed = 0
  /\ txq_previous = p
  /\ txq_ct_added = (p + d) * EFCT_TX_ALIGNMENT
  /\ txq_ct_removed = p * EFCT_TX_ALIGNMENT
  /\ txq_descriptors = [i \in 0 .. txq_mask |-> EFCT_TX_ALIGNMENT]
  /\ txq_ids = [i \in 0 .. txq_mask |-> i + 1]
  /\ evq_ptr = 0
  /\ evq = [i \in 0 .. (EvqEntries - 1) |-> EvqCleared]
  /\ nic_done = p
  /\ nic_evq_w = 0
  /\ tx_exact = FALSE

InitPollSteps ==
  /\ InitRx
  /\ vi \in PollStepVis
  /\ IF vi.arch = "EF_VI_ARCH_EFCT" /\ vi.vi_txq_mask /= 0
       THEN \E p \in TxPast, d \in 0 .. (seq_mask + 1) : InitTxAny(p, d)
       ELSE InitTx
  /\ IF vi.arch = "EF_VI_ARCH_AF_XDP"
       THEN \E p \in XdpPast : InitXdpRings(p)
       ELSE InitXdpRings(0)
  /\ ct_fifo_bytes = 0
  /\ last = Call("init", 0, "none")

PollStepsEfctRx ==
  /\ vi.arch = "EF_VI_ARCH_EFCT"
  /\ vi.vi_rxq_mask /= 0
  /\ \/ pc.at = "idle" /\ efct_vi_attach_rxq(0, 0) /\ UNCHANGED pc
     \/ \E q \in Qids, n \in 0 .. MaxEvs :
          /\ Cardinality(inflight) < MaxInflight
          /\ efct_poll_rx_begin(q, n)
     \/ efct_poll_rx_iter(TRUE)
     \/ /\ \/ \E q \in Qids, sb \in Sbids : KernelPublish(q, sb)
           \/ \E q \in Qids : NicWriteHeader(q)
        /\ UNCHANGED pc
  /\ UNCHANGED <<tx_vars, xdp_vars>>

\* the NIC writes at most MaxEvs events
PollStepsEfctTx ==
  /\ vi.arch = "EF_VI_ARCH_EFCT"
  /\ vi.vi_txq_mask /= 0
  /\ \/ \E n \in 0 .. MaxEvs : efct_poll_tx_begin(n)
     \/ efct_poll_tx_iter
     \/ /\ nic_evq_w < MaxEvs
        /\ \/ \E seq \in 0 .. seq_mask : NicWriteSeq(seq)
           \/ NicEvent("CONTROL")
        /\ UNCHANGED pc
  /\ UNCHANGED <<rx_vars, xdp_vars>>

PollStepsXdp ==
  /\ vi.arch = "EF_VI_ARCH_AF_XDP"
  /\ \/ /\ pc.at = "idle"
        /\ \/ /\ XdpBudget(xdp_rxq)
              /\ efxdp_ef_vi_receive_init(XdpDmaId(xdp_rxq.added),
                                          XdpDmaId(xdp_rxq.added))
           \/ efxdp_ef_vi_receive_push
           \/ \E iov \in XdpIovs(xdp_txq.added) :
                /\ XdpBudget(xdp_txq)
                /\ efxdp_ef_vi_transmitv(iov, XdpDmaId(xdp_txq.added), 0)
        /\ UNCHANGED pc
     \/ \E n \in 0 .. MaxEvs : efxdp_poll_begin(n, 0)
     \/ efxdp_poll_read
     \/ efxdp_poll_store(0)
     \/ XdpKernelRxRoom
     \/ XdpKernelTx /\ UNCHANGED pc
  /\ UNCHANGED <<rx_vars, tx_vars>>

NextPollSteps ==
  /\ \/ PollStepsEfctRx
     \/ PollStepsEfctTx
     \/ PollStepsXdp
  /\ UNCHANGED <<rx_ctl, xdp_accepted, vi, cp>>

SpecPollSteps == InitPollSteps /\ [][NextPollSteps]_vars

\* a VI of either kind: an EFCT VI with the poller its flags and its TX ring
\* select, or a VI over AF_XDP with some rounds behind it
InitPoll ==
  /\ InitRx
  /\ InitTx
  /\ \/ /\ InitXdpRings(0)
        /\ \E flags \in SUBSET {"EF_VI_EFCT_UNIQUEUE"}, mask \in {0, txq_mask} :
             vi = [ViZero EXCEPT
                     !.arch = "EF_VI_ARCH_EFCT", !.vi_flags = flags,
                     !.vi_rxq_mask = rxq_mask, !.vi_txq_mask = mask,
                     !.ops = "efct_vi_init",
                     !.eventq_poll = efct_vi_initialise_ops(flags, mask)]
        /\ ct_fifo_bytes = 2 * EFCT_TX_ALIGNMENT
     \/ /\ \E p \in XdpPast : InitXdpRings(p)
        /\ vi = [ViZero EXCEPT !.arch = "EF_VI_ARCH_AF_XDP",
                               !.vi_rxq_mask = rxq_mask,
                               !.vi_txq_mask = txq_mask,
                               !.ops = "efxdp_vi_init",
                               !.eventq_poll = "efxdp_ef_eventq_poll"]
        /\ ct_fifo_bytes = 0
  /\ last = Call("init", 0, "none")

\* the EFCT VI is polled by its poller; the application holds at most
\* MaxInflight packets and sends one, the kernel publishes the superbuffers
\* in the order of their ids, and the NIC writes at most MaxEvs events
EfctPollCalls ==
  \/ efct_vi_attach_rxq(0, 0) /\ UNCHANGED tx_vars
  \/ \E n \in 0 .. MaxEvs :
       /\ Cardinality(inflight) < MaxInflight
       /\ ef_eventq_poll(n, TRUE)
  \/ \E q \in Qids, sb \in Sbids :
       sb = Len(posted[q]) /\ KernelPublish(q, sb) /\ UNCHANGED tx_vars
  \/ \E q \in Qids : NicWriteHeader(q) /\ UNCHANGED tx_vars
  \/ /\ vi.vi_txq_mask /= 0
     /\ \/ \E id \in DmaIds : txq_added < 1 /\ efct_ef_vi_transmit(1, id)
        \/ NicComplete(1)
        \/ nic_evq_w < MaxEvs /\ NicEvent("CONTROL")
     /\ UNCHANGED rx_vars

\* the AF_XDP VI sends and receives single buffers, and its kicks succeed
XdpPollCalls ==
  \/ /\ XdpBudget(xdp_txq)
     /\ efxdp_ef_vi_transmitv(<<[iov_base |-> XdpDmaId(xdp_txq.added),
                                 iov_len |-> 64]>>,
                              XdpDmaId(xdp_txq.added), 0)
  \/ /\ XdpBudget(xdp_rxq)
     /\ efxdp_ef_vi_receive_init(XdpDmaId(xdp_rxq.added),
                                 XdpDmaId(xdp_rxq.added))
  \/ efxdp_ef_vi_receive_push
  \/ \E n \in 0 .. MaxEvs : efxdp_ef_eventq_poll(n, 0)
  \/ ef_vi_transmit_unbundle
  \/ XdpKernelRx
  \/ XdpKernelTx

NextPoll ==
  \/ /\ vi.arch = "EF_VI_ARCH_EFCT"
     /\ EfctPollCalls
     /\ UNCHANGED <<xdp_vars, rx_ctl, side_vars>>
  \/ /\ vi.arch = "EF_VI_ARCH_AF_XDP"
     /\ XdpPollCalls
     /\ UNCHANGED <<rx_vars, tx_vars, rx_ctl, side_vars>>

SpecPoll == InitPoll /\ [][NextPoll]_vars

\* the same with the two reinits, after which the application makes no other
\* call
NextXdpReinit ==
  /\ \/ last.op \notin ReinitOps /\ XdpCalls
     \/ ef_vi_rxq_reinit
     \/ ef_vi_txq_reinit
  /\ UNCHANGED <<rx_vars, tx_vars, rx_ctl, side_vars>>

SpecXdpReinit == InitXdpVi /\ [][NextXdpReinit]_vars

(***************************************************************************)
(* ef_vi_init with the architectures it may be passed, one VI that is      *)
(* initialised again and again.                                            *)
(***************************************************************************)
InitVi ==
  /\ InitRx
  /\ InitTx
  /\ InitXdp(0)
  /\ ct_fifo_bytes = 0
  /\ last = Call("init", 0, "none")

NextVi ==
  /\ \/ \E arch \in ViArchs, flags \in SUBSET ViFlags : ef_vi_init(arch, flags)
     \/ \E io_area \in {"NULL", "io"} : ef_vi_init_io(io_area)
  /\ UNCHANGED <<rx_vars, tx_vars, xdp_vars, rx_ctl, xdp_accepted, cp, pc>>

SpecVi == InitVi /\ [][NextVi]_vars

\* the timestamp of packets that carry a cPacket trailer
SpecCpacket == InitVi /\ [][NextCpacket]_vars

(***************************************************************************)
(* The kernel's side of the kick, as the specification and the comment of  *)
(* efxdp_vi.c:12-17 describe it: a kick makes the kernel accept packets of *)
(* the TX ring for sending, all that are queued (the kick returns 0) or    *)
(* only some of them, possibly none (the kick fails), and the kernel sends *)
(* what it has accepted.                                                   *)
(***************************************************************************)
XdpKernelKick ==
  LET queued == Wrap(xdp_tx'.producer - xdp_accepted)
  IN  IF last'.stop = "kick_ok" THEN xdp_accepted' = xdp_tx'.producer
      ELSE IF last'.stop = "kick_failed"
        THEN \E k \in 0 .. (queued - 1) : xdp_accepted' = Wrap(xdp_accepted + k)
      ELSE xdp_accepted' = xdp_accepted

\* the application polls with room for an event
XdpPolls ==
  \E n \in 1 .. MaxEvs, kick_rc \in KickRcs : efxdp_ef_eventq_poll(n, kick_rc)

\* a poll kicks and the kernel accepts all that is queued
XdpPollKicked == XdpPolls /\ last'.stop = "kick_ok"

\* the kernel sends a packet it has accepted
XdpKernelSend == xdp_tx.consumer /= xdp_accepted /\ XdpKernelTx

\* a step of the transmit side with that kernel
XdpKickStep(A) ==
  A /\ XdpKernelKick /\ UNCHANGED <<rx_vars, tx_vars, rx_ctl, vi, cp, pc>>

NextXdpKick ==
  \/ XdpKickStep(\E iov \in XdpIovs(xdp_txq.added), kick_rc \in KickRcs :
                   /\ XdpBudget(xdp_txq)
                   /\ efxdp_ef_vi_transmitv(iov, XdpDmaId(xdp_txq.added),
                                            kick_rc))
  \/ XdpKickStep(XdpPolls)
  \/ XdpKickStep(efxdp_ef_eventq_poll(0, 0))
  \/ XdpKickStep(ef_vi_transmit_unbundle)
  \/ XdpKickStep(XdpKernelSend)

\* the transmit side of the AF_XDP VI with an application that goes on
\* polling, a kernel that goes on sending what it accepted, and kicks that
\* are accepted in the end if they are made again and again
SpecXdpKick ==
  /\ InitXdpVi
  /\ [][NextXdpKick]_vars
  /\ WF_vars(XdpKickStep(XdpPolls))
  /\ WF_vars(XdpKickStep(XdpKernelSend))
  /\ SF_vars(XdpKickStep(XdpPollKicked))

(***************************************************************************)
(*                         The receive engine                              *)
(***************************************************************************)

\* packet k (from 0) of the stream the NIC writes to queue q: the packets of
\* each published superbuffer, index 0 upwards, in fill-ring order
StreamPkt(q, k) ==
  PktId(q, posted[q][(k \div SuperbufPkts) + 1][1], k % SuperbufPkts)

\* packets of queue q that the NIC has completed: packet k is complete when
\* the header after it, header k + 1 of the stream, is written
Completed(q) == IF nic_w[q] = 0 THEN 0 ELSE nic_w[q] - 1

\* the superbuffer ids waiting on the free ring of queue q
FreeRingIds(q) ==
  {shm_freeq[q].q[k % RingSize] :
     k \in shm_freeq[q].removed .. (shm_freeq[q].added - 1)}

(***************************************************************************)
(* C1.  For one RX queue, over any interleaving of NIC header writes,      *)
(* fill-ring publications and polls, the rq_ids emitted are exactly the    *)
(* packets in NIC write order: the indices 0 .. packets-per-superbuffer-1  *)
(* of each superbuffer, superbuffers in fill-ring order, none emitted      *)
(* twice, none skipped, and none before the NIC completed it.              *)
(***************************************************************************)
C1_RxOrder ==
  \A q \in Qids :
    /\ Len(emitted[q]) <= Completed(q)
    /\ \A k \in 1 .. Len(emitted[q]) : emitted[q][k] = StreamPkt(q, k - 1)

\* the stream has crossed two rollovers and a superbuffer was used twice
C1_Witness ==
  /\ Len(emitted[0]) > 2 * SuperbufPkts
  /\ \E i, j \in 1 .. Len(emitted[0]) : i < j /\ emitted[0][i] = emitted[0][j]

C3_Release(p) ==
  LET g == pkt_id_to_global_superbuf_ix(p)
      q == pkt_id_to_rxq_ix(p)
      freed == shm_freeq'[q].added = shm_freeq[q].added + 1
  IN  /\ last'.fault = "none"
      /\ refcnt'[g] = refcnt[g] - 1
      /\ \A h \in GlobalIxs \ {g} : refcnt'[h] = refcnt[h]
      /\ freed \/ shm_freeq' = shm_freeq
      /\ freed <=> rel_since'[g] = SuperbufPkts
      /\ freed => shm_freeq'[q].q[shm_freeq[q].added % RingSize]
                    = pkt_id_to_local_superbuf_ix(p)

C3_ReleaseRefcount ==
  [][/\ last'.op = "release" =>
          \A p \in inflight : efct_vi_rxpkt_release(p) => C3_Release(p)
     /\ \A g \in GlobalIxs :
          /\ free_since'[g] <= 1
          /\ free_since'[g] = 1 <=> rel_since'[g] = SuperbufPkts]_vars

\* a superbuffer went to the free ring on the last release of its packets
C3_Witness ==
  /\ last.op = "release"
  /\ \E g \in GlobalIxs : free_since[g] = 1 /\ refcnt[g] = 0
  /\ inflight /= {}

(***************************************************************************)
(* C4.  Every packet id that was emitted and is not yet released names a   *)
(* superbuffer whose refcount is greater than 0 and which is not on the    *)
(* free ring.                                                              *)
(***************************************************************************)
C4_InflightLive ==
  \A p \in inflight :
    /\ refcnt[pkt_id_to_global_superbuf_ix(p)] > 0
    /\ pkt_id_to_local_superbuf_ix(p) \notin FreeRingIds(pkt_id_to_rxq_ix(p))

\* a packet is in flight while another superbuffer waits on the free ring
C4_Witness ==
  \E p \in inflight : FreeRingIds(pkt_id_to_rxq_ix(p)) /= {}

(***************************************************************************)
(* C5.  When the fill ring is empty, rollover returns EAGAIN and changes   *)
(* nothing: prev, next, the refcounts, the fill ring's consumer counter    *)
(* and the free ring are as before the rollover, and the poll returns the  *)
(* number of events it had emitted.                                        *)
(***************************************************************************)
C5_RolloverEagain ==
  last.op = "poll_rx" =>
    /\ last.stop = "eagain" =>
         /\ last.pre_roll.valid /\ last.pre_roll.fill = 0
         /\ last.pre_roll.prog = RxProgramState(RxState)
         /\ last.ret = Len(last.log)
         /\ \A k \in 1 .. Len(last.log) :
              /\ last.log[k].emitted
              /\ last.log[k].removed = rxq_removed - last.ret + k - 1
    /\ (last.pre_roll.valid /\ last.pre_roll.fill = 0) => last.stop = "eagain"

\* a poll emitted an event and then met the empty fill ring
C5_Witness ==
  last.op = "poll_rx" /\ last.stop = "eagain" /\ last.ret >= 1

(***************************************************************************)
(* C6.  After attach has set next to 1 + packets-per-superbuffer, the      *)
(* startup branch of rollover is taken on exactly the first successful     *)
(* rollover of the queue, also after rollovers that returned EAGAIN, and   *)
(* on no later one; the first event has the rq_id of index 0 of the first  *)
(* superbuffer, whose refcount is packets-per-superbuffer at the emission. *)
(***************************************************************************)
C6_StartupOnce ==
  \A q \in Qids :
    /\ \A k \in 1 .. Len(roll_hist[q]) : roll_hist[q][k] <=> (k = 1)
    /\ (last.op = "poll_rx" /\ last.ret > 0 /\ last.log[1].q_id = q
          /\ Len(emitted[q]) = last.ret) =>
         /\ emitted[q][1] = PktId(q, posted[q][1][1], 0)
         /\ last.log[1].prev.pkt_id = emitted[q][1]
         /\ last.log[1].refcnt = SuperbufPkts

\* rollover returned EAGAIN, then succeeded twice, and events were emitted
C6_Witness ==
  /\ eagain_first[0]
  /\ Len(roll_hist[0]) >= 2
  /\ emitted[0] /= <<>>

(***************************************************************************)
(*                         The transmit engine                             *)
(***************************************************************************)
TxOps == {"transmit", "transmitv"}

\* n rounded up to a multiple of 64
RoundUp64(n) == ((n + 63) \div 64) * 64

RECURSIVE SumDesc(_, _)
\* the lengths recorded in the descriptor slots of the packets a .. b - 1
SumDesc(a, b) ==
  IF a >= b THEN 0
  ELSE txq_descriptors[a % (txq_mask + 1)] + SumDesc(a + 1, b)

(***************************************************************************)
(* C7.  After every successful CTPIO transmit of payload length L, for     *)
(* every split of the payload into blocks, the aperture has advanced by    *)
(* round_up_to_64(8 + L) bytes, the descriptor slot of the packet records  *)
(* that value, ct_added has grown by it and is a multiple of 64, and added *)
(* has grown by 1.                                                         *)
(***************************************************************************)
C7_TxAdvance ==
  (last.op \in TxOps /\ last.fault = "none" /\ last.ret = 0) =>
    /\ last.log[1].end - last.log[1].start = RoundUp64(8 + last.log[1].len)
    /\ txq_descriptors[last.log[1].added % (txq_mask + 1)]
         = RoundUp64(8 + last.log[1].len)
    /\ txq_ct_added = last.log[1].ct_added + RoundUp64(8 + last.log[1].len)
    /\ txq_ct_added % 64 = 0
    /\ txq_added = last.log[1].added + 1

\* a transmitv of two blocks, the first not a whole number of words, that
\* fills more than one alignment unit and does not start at offset 0
C7_Witness ==
  /\ last.op = "transmitv" /\ last.fault = "none" /\ last.ret = 0
  /\ last.log[1].blocks = 2
  /\ last.log[1].head % 8 /= 0
  /\ last.log[1].len - last.log[1].head > 8
  /\ last.log[1].end - last.log[1].start > 64
  /\ last.log[1].start /= 0

C9_Boundary ==
  (last.op \in TxOps /\ last.fault = "none") =>
    /\ last.log[1].len = last.log[1].space =>
         /\ last.ret = 0
         /\ txq_added = last.log[1].added + 1
         /\ txq_ids[last.log[1].added % (txq_mask + 1)] = last.log[1].dma_id
    /\ last.log[1].len = last.log[1].space + 1 =>
         /\ last.ret = -EAGAIN
         /\ last.log[1].pre = TxProgramState

\* a transmit of exactly the space left succeeded, and a transmit of one byte
\* more than the space left was rejected
C9_Witness ==
  /\ tx_exact
  /\ last.op \in TxOps /\ last.ret = -EAGAIN
  /\ last.log[1].len = last.log[1].space + 1
  /\ last.log[1].space > 0

(***************************************************************************)
(* C10.  Handling one TX completion with sequence seq leaves               *)
(* (previous & seq_mask) = ((seq + 1) & seq_mask), adds to ct_removed the  *)
(* sum of desc[i & mask].len over the slots previous stepped across, and   *)
(* emits one TX event whose desc_id is the new previous; seq = 3 with      *)
(* previous = 0 gives previous = 4 and desc_id = 4.                        *)
(***************************************************************************)
C10_HandleEvent ==
  (last.op = "poll_tx" /\ last.fault = "none") =>
    /\ \A k \in 1 .. Len(last.log) :
         /\ last.log[k].new_previous % (seq_mask + 1)
              = (last.log[k].seq + 1) % (seq_mask + 1)
         /\ last.log[k].new_previous >= last.log[k].previous
         /\ last.log[k].new_ct_removed
              = last.log[k].ct_removed
                  + SumDesc(last.log[k].previous, last.log[k].new_previous)
         /\ last.log[k].desc_id = last.log[k].new_previous
         /\ (last.log[k].seq = 3 /\ last.log[k].previous = 0) =>
              (last.log[k].new_previous = 4 /\ last.log[k].desc_id = 4)
    /\ last.ret = Len(last.log)
    /\ last.log /= <<>> =>
         /\ txq_previous = last.log[Len(last.log)].new_previous
         /\ txq_ct_removed = last.log[Len(last.log)].new_ct_removed

\* one completion with seq = 3 was handled from previous = 0
C10_Witness ==
  /\ last.op = "poll_tx"
  /\ \E k \in 1 .. Len(last.log) :
       /\ last.log[k].seq = 3
       /\ last.log[k].previous = 0
       /\ last.log[k].new_previous = 4

\* the sequence number of the event with which the NIC reports that the
\* packets before packet n are complete
TxSeqOf(n) == (n + seq_mask) % (seq_mask + 1)

\* is s a sequence of numbers that never decrease?
NonDecreasing(s) == \A i \in 1 .. (Len(s) - 1) : s[i] <= s[i + 1]

RECURSIVE HandleEach(_, _)
\* efct_tx_handle_event for the events that report the packets before
\* cuts[1], cuts[2], ... complete, one by one
HandleEach(st, cuts) ==
  IF cuts = <<>> THEN st
  ELSE HandleEach(
         efct_tx_handle_event(st, [seq |-> TxSeqOf(Head(cuts)), label |-> 0]),
         Tail(cuts))

\* the runs of completion events the NIC may write for the packets in flight:
\* at most MaxMerge events, each reporting no less than the one before
CompletionRuns ==
  {cuts \in SeqsUpTo(txq_previous .. txq_added, MaxMerge) :
     cuts /= <<>> /\ NonDecreasing(cuts)}

(***************************************************************************)
(* C11.  From every TX state, handling the completion events of a run one  *)
(* by one gives the same previous and ct_removed as handling only the last *)
(* event of the run, which reports all of them at once.                    *)
(***************************************************************************)
C11_Merge ==
  \A cuts \in CompletionRuns :
    /\ HandleEach(TxPollState, cuts).fault = "none"
    /\ HandleEach(TxPollState, cuts).previous
         = HandleEach(TxPollState, <<cuts[Len(cuts)]>>).previous
    /\ HandleEach(TxPollState, cuts).ct_removed
         = HandleEach(TxPollState, <<cuts[Len(cuts)]>>).ct_removed

\* a poll handled one event that reports two packets of different lengths,
\* across the wrap of the sequence field
C11_Witness ==
  /\ last.op = "poll_tx" /\ last.fault = "none"
  /\ \E k \in 1 .. Len(last.log) :
       /\ last.log[k].new_previous = last.log[k].previous + 2
       /\ last.log[k].new_previous % (seq_mask + 1) < 2
       /\ txq_descriptors[last.log[k].previous % (txq_mask + 1)]
            /= txq_descriptors[(last.log[k].previous + 1) % (txq_mask + 1)]

(***************************************************************************)
(* C12.  Over transmits and completion events, slots are reclaimed in      *)
(* submission order, each once: previous and ct_removed never decrease,    *)
(* previous never passes added, ct_removed never exceeds ct_added, and the *)
(* bytes outstanding are those of the slots previous .. added - 1.         *)
(***************************************************************************)
C12_TxOrder ==
  /\ [](/\ txq_previous <= txq_added
        /\ txq_ct_removed <= txq_ct_added
        /\ txq_ct_added - txq_ct_removed = SumDesc(txq_previous, txq_added))
  /\ [][/\ txq_previous' >= txq_previous
        /\ txq_ct_removed' >= txq_ct_removed
        /\ txq_ct_removed' - txq_ct_removed
             = SumDesc(txq_previous, txq_previous')]_vars

\* a poll reclaimed slots while a packet of another length stayed in flight
C12_Witness ==
  /\ last.op = "poll_tx" /\ last.fault = "none"
  /\ last.log /= <<>>
  /\ last.log[1].new_previous > last.log[1].previous
  /\ txq_previous < txq_added
  /\ txq_descriptors[txq_previous % (txq_mask + 1)]
       /= txq_descriptors[last.log[1].previous % (txq_mask + 1)]

(***************************************************************************)
(*                  Reinit of the queues, vi_init.c                        *)
(***************************************************************************)
\* the request ids in the slots removed .. added of the queue q, in order
PendingIds(q, mask) ==
  [k \in 1 .. Wrap(q.added - q.removed) |->
     q.ids[Wrap(q.removed + k - 1) % (mask + 1)]]

\* the queue the reinit before this state worked on
ReinitQueue == IF last.op = "rxq_reinit" THEN xdp_rxq ELSE xdp_txq

\* C13: ef_vi_rxq_reinit and ef_vi_txq_reinit pass every request id pending
\* in the slots removed .. added to the callback once and in that order;
\* afterwards added and removed are zero and every id slot holds the unused
\* sentinel.
C13_Reinit ==
  last.op \in ReinitOps =>
    /\ last.fault = "none"
    /\ last.log = PendingIds(last.pre_roll.prog, txq_mask)
    /\ ReinitQueue.added = 0
    /\ ReinitQueue.removed = 0
    /\ \A i \in 0 .. txq_mask : ReinitQueue.ids[i] = EF_REQUEST_ID_MASK

\* C14: an ef_vi_rxq_reinit right after another one passes no id to the
\* callback and leaves the RX queue state as the first call left it.
C14_ReinitTwice ==
  (last.op = "rxq_reinit" /\ last.stop = "rxq_reinit") =>
    /\ last.fault = "none"
    /\ last.log = <<>>
    /\ xdp_rxq = last.pre_roll.prog

\* the second of two reinits of an RX queue that held pushed buffers
C14_Witness ==
  /\ last.op = "rxq_reinit"
  /\ last.stop = "rxq_reinit"
  /\ xdp_rx.consumer < xdp_fr.producer
  /\ xdp_rxq.added = 0
  /\ \A i \in 0 .. rxq_mask : xdp_rxq.ids[i] = EF_REQUEST_ID_MASK

\* C15: after ef_vi_txq_reinit every counter of the TX state is zero, the
\* CTPIO byte counters ct_added and ct_removed included, so the next transmit
\* has the whole CTPIO FIFO, also when packets were in flight at the reinit.
C15_ReinitZero ==
  last.op = "txq_reinit" =>
    /\ txq_added = 0
    /\ txq_removed = 0
    /\ txq_previous = 0
    /\ txq_ct_added = 0
    /\ txq_ct_removed = 0
    /\ ef_vi_transmit_space_bytes = ct_fifo_bytes

(***************************************************************************)
(*                     The AF_XDP rings, efxdp_vi.c                        *)
(***************************************************************************)
\* C16: over transmits, receive_inits, pushes and polls of the AF_XDP VI,
\* with a kernel that completes only posted entries, added - removed (taken
\* modulo the width of the counters) is between 0 and mask + 1, for the TX
\* queue and for the RX queue.
C16_XdpFill ==
  /\ Wrap(xdp_txq.added - xdp_txq.removed) \in 0 .. (txq_mask + 1)
  /\ Wrap(xdp_rxq.added - xdp_rxq.removed) \in 0 .. (rxq_mask + 1)

\* a transmit refused on the full TX ring, whose added has wrapped, while
\* the RX queue holds a buffer
C16_Witness ==
  /\ last.op = "xdp_transmitv"
  /\ last.ret = -EAGAIN
  /\ Wrap(xdp_txq.added - xdp_txq.removed) = txq_mask
  /\ xdp_txq.added < xdp_txq.removed
  /\ Wrap(xdp_rxq.added - xdp_rxq.removed) = 1

\* C20: a transmit on the AF_XDP VI with iov_len other than 1 returns
\* -EINVAL and changes nothing: added, the id array, the descriptor ring, the
\* shared producer and previous are as before, and no kick is issued.
C20_XdpInval ==
  (last.op = "xdp_transmitv" /\ last.log[1].iov_len /= 1) =>
    /\ last.ret = -EINVAL
    /\ last.log[1].kicks = 0
    /\ XdpTxState = last.log[1].pre

\* a transmit of two buffers refused while a packet waits for its kick and
\* the ring has room
C20_Witness ==
  /\ last.op = "xdp_transmitv"
  /\ last.log[1].iov_len = 2
  /\ last.ret = -EINVAL
  /\ xdp_txq.previous /= xdp_txq.added
  /\ Wrap(xdp_txq.added - xdp_txq.removed) < txq_mask

(***************************************************************************)
(*              The receive engine: counters and refresh                   *)
(***************************************************************************)
\* C17: for the RX queue state of an EFCT VI, over polls that emit events,
\* rxq.added >= rxq.removed and added - removed is at most the capacity of
\* the ring.
C17_RxqBound ==
  /\ rxq_added >= rxq_removed
  /\ rxq_added - rxq_removed <= rxq_mask + 1

\* a refresh of queue q failed and none has succeeded since
RefreshOutstanding(q) == refresh_last[q].tried /\ ~refresh_last[q].ok

\* C18: a poll whose refresh fails returns the events it has emitted so far
\* and emits nothing more, and after a failed refresh no poll reads a packet
\* header before it has tried the refresh again.
C18_RefreshRetry ==
  last.op = "poll_rx" =>
    /\ last.stop = "refresh" =>
         /\ last.ret = Len(last.log)
         /\ \A k \in 1 .. Len(last.log) : last.log[k].emitted
    /\ \A k \in 1 .. Len(last.log) : ~RefreshOutstanding(last.log[k].q_id)

XdpSubmission ==
  IF last.op = "xdp_receive_init"
    THEN [q |-> last.log[1].pre[1], desc |-> last.log[1].pre[2].desc,
          q_now |-> xdp_rxq, desc_now |-> xdp_fr.desc, mask |-> rxq_mask]
    ELSE [q |-> last.log[1].pre[1], desc |-> last.log[1].pre[2].desc,
          q_now |-> xdp_txq, desc_now |-> xdp_tx.desc, mask |-> txq_mask]

\* a receive_init or a transmit of one buffer is accepted below `extra` more
\* than q->mask entries outstanding and is refused with EAGAIN, nothing
\* written, exactly from there on
XdpRefusedFrom(extra) ==
  (\/ last.op = "xdp_receive_init"
   \/ last.op = "xdp_transmitv" /\ last.log[1].iov_len = 1) =>
    LET s == XdpSubmission
        outstanding == Wrap(s.q.added - s.q.removed)
    IN  /\ outstanding < s.mask + extra => last.ret = 0
        /\ last.ret = -EAGAIN <=> outstanding >= s.mask + extra
        /\ last.ret = -EAGAIN =>
             /\ s.q_now.added = s.q.added
             /\ s.q_now.ids = s.q.ids
             /\ s.desc_now = s.desc

\* C21 as stated: AF_XDP receive_init and transmit accept a submission
\* whenever fewer than mask + 1 entries are outstanding, and return EAGAIN,
\* leaving added, the id array and the descriptor ring unchanged, exactly
\* when added - removed >= mask + 1.
C21_RefusedAtSize == XdpRefusedFrom(1)

\* C21, amended: AF_XDP receive_init and transmit accept a submission
\* whenever fewer than mask entries are outstanding, and return EAGAIN,
\* leaving added, the id array and the descriptor ring unchanged, exactly
\* when added - removed >= mask.
C21_RefusedAtMask == XdpRefusedFrom(0)

\* a receive_init was refused with mask buffers outstanding, after the
\* counter has wrapped
C21_Witness ==
  /\ last.op = "xdp_receive_init"
  /\ last.ret = -EAGAIN
  /\ Wrap(xdp_rxq.added - xdp_rxq.removed) = rxq_mask
  /\ xdp_rxq.added < xdp_rxq.removed

\* C22: after every AF_XDP transmit_push the shared TX producer equals
\* added; previous is set to added iff the kick succeeded and is otherwise
\* unchanged, so in every reachable state previous <= added (as counters
\* modulo their width: previous is at most the packets of the run behind
\* added) and previous moves only to added and only by a kick that succeeded.
C22_KickCovers ==
  /\ [](/\ (last.op = "xdp_transmitv" /\ last.ret = 0
              /\ last.fault = "none") =>
             /\ xdp_tx.producer = xdp_txq.added
             /\ last.stop = "kick_ok" => xdp_txq.previous = xdp_txq.added
             /\ last.stop /= "kick_ok" =>
                  xdp_txq.previous = last.log[1].pre[1].previous
         /\ Wrap(xdp_txq.added - xdp_txq.previous) <= xdp_posts)
  /\ [][/\ xdp_txq'.previous /= xdp_txq.previous =>
             /\ last'.stop = "kick_ok"
             /\ xdp_txq'.previous = xdp_txq'.added
        /\ last'.stop = "kick_ok" => xdp_txq'.previous = xdp_txq'.added]_vars

\* a transmit whose kick failed follows one whose kick succeeded: previous
\* is one packet behind added, across the wrap of the counters
C22_Witness ==
  /\ last.op = "xdp_transmitv"
  /\ last.stop = "kick_failed"
  /\ xdp_tx.producer = xdp_txq.added
  /\ Wrap(xdp_txq.added - xdp_txq.previous) = 1
  /\ xdp_txq.added < xdp_txq.previous

\* C23: whenever an AF_XDP kick has failed and left previous /= added, the
\* next poll issues a re-kick, so that with repeated polling and a kernel
\* that eventually accepts a kick, previous = added is eventually reached
\* for every queued packet.
C23_Rekick ==
  (xdp_txq.previous /= xdp_txq.added) ~> (xdp_txq.previous = xdp_txq.added)

(***************************************************************************)
(*                             ef_vi_init                                  *)
(***************************************************************************)
\* the init function of each architecture that has one
ViArchInit ==
  [a \in {"EF_VI_ARCH_EF10", "EF_VI_ARCH_EF100", "EF_VI_ARCH_AF_XDP",
          "EF_VI_ARCH_EFCT"} |->
     CASE a = "EF_VI_ARCH_EF10" -> "ef10_vi_init"
       [] a = "EF_VI_ARCH_EF100" -> "ef100_vi_init"
       [] a = "EF_VI_ARCH_AF_XDP" -> "efxdp_vi_init"
       [] a = "EF_VI_ARCH_EFCT" -> "efct_vi_init"]

\* C29: ef_vi_init returns success, installs the architecture's operations
\* and marks the VI NIC-initialised for each of EFCT, AF_XDP, EF10 and
\* EF100, and returns invalid-argument without marking the VI initialised
\* for any other architecture value.
C29_InitDispatch ==
  last.op = "ef_vi_init" =>
    IF last.log[1].arch \in DOMAIN ViArchInit
      THEN /\ last.ret = 0
           /\ vi.ops = ViArchInit[last.log[1].arch]
           /\ "EF_VI_INITED_NIC" \in vi.inited
      ELSE /\ last.ret = -EINVAL
           /\ vi.inited = {}

(***************************************************************************)
(*               Operations the EFCT VI does not provide                   *)
(***************************************************************************)
\* the error kinds of the specification: what kind a return value is
ErrorKind(rc) ==
  CASE rc = 0 -> "success"
    [] rc \in {-EOPNOTSUPP, -ENOSYS} -> "unsupported"
    [] rc = -EINVAL -> "invalid-argument"
    [] OTHER -> "other"

\* C26: on an EFCT VI, transmit_pio, transmit_copy_pio, every
\* transmit_alt_* operation, transmit_memcpy, transmit_memcpy_sync and
\* receive_init each return the unsupported error kind and leave all VI
\* state unchanged, and transmit_push changes no state.
C26_Unsupported ==
  /\ [](last.op \in DOMAIN efct_unsupported_rc \cup {"receive_init"} =>
          ErrorKind(last.ret) = "unsupported" /\ last.fault = "none")
  /\ [][last'.op \in DOMAIN efct_unsupported_rc
                       \cup {"receive_init", "transmit_push"} =>
          /\ rx_vars' = rx_vars
          /\ tx_vars' = tx_vars
          /\ rx_ctl' = rx_ctl]_vars

\* transmit_alt_select_default was refused while packets are in flight and
\* a completion event waits in the ring
C26_Witness ==
  /\ last.op = "transmit_alt_select_default"
  /\ last.ret = -EOPNOTSUPP
  /\ txq_added > txq_previous
  /\ efct_tx_get_event(evq_ptr)

(***************************************************************************)
(*                 The receive engine: double release                      *)
(***************************************************************************)
\* C28: for any emitted packet id p that is not the last outstanding packet
\* of its superbuffer, calling release(p) a second time triggers the
\* refcount-underflow fault instead of decrementing the refcount again.
C28_DoubleRelease ==
  [][\A q \in Qids : \A p \in SeqRange(emitted[q]) \ inflight :
       (/\ refcnt[pkt_id_to_global_superbuf_ix(p)] > 0
        /\ efct_vi_rxpkt_release(p)) =>
         /\ last'.fault = "refcnt_underflow"
         /\ refcnt' = refcnt]_vars

(***************************************************************************)
(*                  The event ring: order of consumption                   *)
(***************************************************************************)
\* the k-th entry a poll that starts in this state looks at
EvqAt(k) == (evq_ptr + k * EF_VI_EV_SIZE) % EvqPtrSpan

RECURSIVE CpNearestSubnano(_)
CpNearestSubnano(tags) ==
  IF tags = <<>> THEN 0
  ELSE LET tag == tags[Len(tags)]
       IN  IF tag.kind = "bogus" THEN 0
           ELSE IF tag.kind = "subnano" THEN tag.value
           ELSE CpNearestSubnano(SubSeq(tags, 1, Len(tags) - 1))

RxHeaderPending(q) ==
  LET next == rxq_ptr[q].next
      index == pkt_id_to_index_in_superbuf(next.pkt_id)
  IN  /\ index < superbuf_pkts[q]
      /\ hdr[pkt_id_to_global_superbuf_ix(next.pkt_id)][index] = next.sentinel

\* C27: efct_ef_eventq_check_event returns true if and only if the event
\* ring holds a valid entry at evq_ptr or at least one active RX queue has a
\* header at its next position whose sentinel equals the expected phase; it
\* returns, and it leaves the state as it was (the step changes `last` only).
C27_CheckEvent ==
  last.op = "check_event" =>
    /\ last.fault = "none"
    /\ last.ret = 1 <=>
         \/ efct_tx_get_event(evq_ptr)
         \/ \E q \in Qids : superbuf_pkts[q] /= 0 /\ RxHeaderPending(q)

(***************************************************************************)
(*                     The pollers and the event array                     *)
(***************************************************************************)
PollOps == {"poll_1rx", "poll_1rxtx", "poll_generic", "xdp_poll"}

C24_WitnessXdp ==
  /\ last.op = "xdp_poll"
  /\ last.arg = MaxEvs
  /\ last.ret = MaxEvs

(***************************************************************************)
(* C31.  The TX events of the AF_XDP poll.                                 *)
(***************************************************************************)
\* the desc_ids of the TX events of a poll, in the order of the events
XdpTxDescIds(log) ==
  LET tx == SelectSeq(log, LAMBDA ev : ev.type = "TX")
  IN  [k \in 1 .. Len(tx) |-> tx[k].desc_id]

\* the completion consumer of before a poll, followed by the desc_ids of the
\* poll's TX events
XdpTxPositions(log) == <<xdp_cr.consumer>> \o XdpTxDescIds(log)

\* C31: in a poll of the AF_XDP VI every TX event carries as desc_id the
\* position the completion consumer has after a step of 1 to
\* EF_VI_TRANSMIT_BATCH entries from the position before (the consumer index
\* for the first event, the desc_id of the event before for the others), no
\* step passes the producer of the completion ring, so the desc_ids of one
\* poll are strictly increasing, and the consumer index the poll publishes is
\* the desc_id of its last TX event.
C31_TxBatches ==
  [][last'.op = "xdp_poll" =>
       LET P == XdpTxPositions(last'.log)
       IN  /\ \A k \in 1 .. Len(P) - 1 :
                /\ Wrap(P[k + 1] - P[k]) \in 1 .. EF_VI_TRANSMIT_BATCH
                /\ Wrap(P[k + 1] - P[k]) <= Wrap(xdp_cr.producer - P[k])
           /\ Len(P) > 1 => xdp_cr'.consumer = P[Len(P)]]_vars

\* a poll has returned two TX events, the first at position 0 where the
\* counter has wrapped, the second after a step of less than a batch
C31_Witness ==
  /\ last.op = "xdp_poll"
  /\ LET d == XdpTxDescIds(last.log)
     IN  /\ Len(d) = 2
         /\ d[1] = 0
         /\ Wrap(d[2] - d[1]) \in 1 .. EF_VI_TRANSMIT_BATCH - 1
         /\ xdp_cr.consumer = d[2]

(***************************************************************************)
(* C32.  The RX events of the AF_XDP poll.                                 *)
(***************************************************************************)
\* the RX events of a poll
XdpRxEvents(log) == SelectSeq(log, LAMBDA ev : ev.type = "RX")

\* the positions of the RX ring between the poll's cons and its prod, whose
\* descriptors it has still to read
XdpUnread == {Wrap(pc.cons + k) : k \in 0 .. Wrap(pc.prod - pc.cons) - 1}

\* C32: the RX events of a poll of the AF_XDP VI carry the request ids that
\* receive_init was given, in the order of the posts and each once: the
\* event for the buffer at position r of the counter removed carries the id
\* posted at position r of added.  The poll moves the consumer index of the
\* RX ring and rxq.removed by the number of RX events it returns.  While the
\* poll reads, the consumer index is the one it found, and the descriptors
\* it has still to read are as it found them, whatever the kernel produces
\* meanwhile.
C32_RxEvents ==
  /\ (last.op = "xdp_poll" /\ pc.at = "idle") =>
       LET rx == XdpRxEvents(last.log)
       IN  /\ \A j \in 1 .. Len(rx) :
                rx[j].rq_id = XdpDmaId(pc.removed0 + j - 1)
           /\ xdp_rxq.removed = Wrap(pc.removed0 + Len(rx))
           /\ xdp_rx.consumer = Wrap(pc.cons0 + Len(rx))
           /\ Len(rx) <= last.arg
  /\ pc.at \in {"read", "store"} =>
       /\ xdp_rx.consumer = pc.cons0
       /\ xdp_rxq.removed = Wrap(pc.removed0 + Len(pc.evs))
       /\ \A i \in XdpUnread :
            xdp_rx.desc[i % (rxq_mask + 1)] = pc.desc0[i % (rxq_mask + 1)]

\* the kernel has passed a buffer while the poll had read one descriptor of
\* two, the counters having wrapped
C32_Witness ==
  /\ pc.at = "read"
  /\ Len(pc.evs) = 1
  /\ Wrap(pc.prod - pc.cons) = 1
  /\ pc.cons < pc.cons0
  /\ Wrap(xdp_rx.producer - pc.prod) = 1

(***************************************************************************)
(* C33.  The free ring under a kernel that consumes it at any time.        *)
(***************************************************************************)
\* how often superbuffer sb is in the entries of a ring of queue q that wait
\* between removed and added
RingCount(ring, sb) ==
  Cardinality({k \in ring.removed .. (ring.added - 1) :
                 SbidOf(ring.q[k % RingSize]) = sb})

\* the places superbuffer sb of queue q is in: with the kernel, on the fill
\* ring, current or held by the application, in a free between its two
\* stores, on the free ring
SuperbufPlaces(q, sb) ==
    (IF sb \in k_free[q] THEN 1 ELSE 0)
  + RingCount(shm_rxq[q], sb)
  + (IF refcnt[q * CI_EFCT_MAX_SUPERBUFS + sb] > 0 THEN 1 ELSE 0)
  + (IF pc.at = "free" /\ pc.qid = q /\ pc.sbid = sb THEN 1 ELSE 0)
  + RingCount(shm_freeq[q], sb)

\* C33: with no more superbuffers in circulation than the free ring has
\* entries, and the kernel taking entries from the free ring between any two
\* stores of a free, every superbuffer is in exactly one place (none is lost
\* and none is there twice, so the kernel has read no entry that was not
\* written for it), the free ring holds less than its capacity when a free
\* starts, and no release ends on the overflow assertion.
C33_FreeRing ==
  /\ \A q \in Qids, sb \in Sbids : SuperbufPlaces(q, sb) = 1
  /\ \A q \in Qids :
       /\ shm_freeq[q].added - shm_freeq[q].removed \in 0 .. RingSize
       /\ pc.at = "free" /\ pc.qid = q =>
            pc.added - shm_freeq[q].removed < RingSize
  /\ last.fault /= "freeq_overflow"

\* the free of a second superbuffer stands between its two stores, after the
\* kernel has taken the first one from the free ring and published it again
C33_Witness ==
  /\ pc.at = "free"
  /\ pc.added = 1
  /\ pc.sbid = 1
  /\ shm_freeq[pc.qid].removed = 1
  /\ Len(posted[pc.qid]) = NSuperbufs + 1

(***************************************************************************)
(* C34.  The overrun assertion of efct_poll_tx.                            *)
(***************************************************************************)
\* C34, as stated: while the NIC has no more unconsumed events in the ring
\* than the ring has entries, the entry before evq_ptr carries the phase
\* expected for evq_ptr - 8, so the assertion at the entry of efct_poll_tx
\* holds.
C34_OverrunAtSize ==
  NicPending <= EvqEntries => ~efct_poll_tx_overrun(evq_ptr)

\* C34, amended: while the NIC has fewer unconsumed events in the ring than
\* the ring has entries, the entry before evq_ptr carries the phase expected
\* for evq_ptr - 8 and no poll has ended on the overrun assertion; this
\* includes the first poll after ef_vi_init_state, with evq_ptr = 0 and a
\* ring that was not cleared since the driver set it up.
C34_Overrun ==
  NicPending < EvqEntries =>
    /\ ~efct_poll_tx_overrun(evq_ptr)
    /\ last.fault /= "evq_overrun"

\* the first poll after ef_vi_init_state has passed the assertion and taken an
\* event from a ring that the VI did not clear and in which the NIC had
\* written all entries but one
C34_Witness ==
  /\ last.op = "poll_tx"
  /\ last.fault = "none"
  /\ last.ret = 1
  /\ txq_added = 0
  /\ evq_ptr = EF_VI_EV_SIZE
  /\ nic_evq_w = EvqEntries - 1

(***************************************************************************)
(* C35.  The failures of efct_vi_attach_rxq.                               *)
(***************************************************************************)
\* what an attach may set up in a slot: the active flag (superbuf_pkts),
\* rxq_ptr and the cached generation
AttachState == <<superbuf_pkts, rxq_ptr, rxq_config_generation>>

\* a step of the library call op, not one of the kernel or the NIC, which
\* publish a superbuffer or write a header
LibraryStep(op) == last'.op = op /\ posted' = posted /\ nic_w' = nic_w

\* C35: an attach made when every slot of the VI is active returns -ENOSPC;
\* an attach that returns an error (-ENOSPC, the result of the resource
\* allocation or that of the mmap) leaves the active flag, rxq_ptr and the
\* cached generation of every slot as they were; a slot becomes active only
\* in an attach that returns 0, and an attach that returns 0 makes a slot
\* active; a poll on an inactive slot returns 0 and changes no RX state.
C35_AttachFailure ==
  [][/\ LibraryStep("attach") =>
          /\ (\A q \in Qids : superbuf_pkts[q] /= 0) => last'.ret = -ENOSPC
          /\ last'.ret /= 0 => AttachState' = AttachState
          /\ last'.ret = 0 =>
               \E q \in Qids : superbuf_pkts[q] = 0 /\ superbuf_pkts'[q] /= 0
     /\ (\E q \in Qids : superbuf_pkts[q] = 0 /\ superbuf_pkts'[q] /= 0) =>
          last'.op = "attach" /\ last'.ret = 0
     /\ (LibraryStep("poll_rx") /\ \A q \in Qids : superbuf_pkts[q] = 0) =>
          /\ last'.ret = 0
          /\ rx_vars' = rx_vars]_vars

\* an attach has returned -ENOSPC on a VI whose slots are all active and
\* whose queue has given out a packet
C35_Witness ==
  /\ last.op = "attach"
  /\ last.ret = -ENOSPC
  /\ \A q \in Qids : superbuf_pkts[q] /= 0 /\ Len(emitted[q]) > 0

\* an attach that the mmap failed has left the only slot inactive
C35_WitnessMmap ==
  /\ last.op = "attach"
  /\ last.ret = -EINVAL
  /\ \A q \in Qids : superbuf_pkts[q] = 0

(***************************************************************************)
(* C36.  The TX ring holds the packets that the FIFO admits.               *)
(***************************************************************************)
\* C36: on a VI whose TX ring passes the test of efct_tx_check, mask + 1 >=
\* (ct_fifo_bytes + 8) / 64, the packets transmitted and not yet completed,
\* added - previous, are never more than mask + 1, so the slot that a
\* transmit writes, at added & mask, never belongs to a packet whose
\* completion is still to come.
C36_RingHolds ==
  ~efct_tx_check_ring_too_small =>
    /\ txq_added - txq_previous <= txq_mask + 1
    /\ (last.op = "transmit" /\ last.ret = 0) =>
         last.log[1].added - txq_previous < txq_mask + 1

(***************************************************************************)
(* C37.  The entries that a poll of an EFCT VI counts.                     *)
(***************************************************************************)
\* C37: the polls of an EFCT VI that run efct_poll_tx (poll_1rxtx and
\* poll_generic) have written an event to every entry of the caller's array
\* below the count they return: the entries written are 0 .. ret - 1, and an
\* entry of the event ring of type CONTROL or of an unknown type, which is
\* consumed, takes no entry of the array.
C37_Populated ==
  (last.op \in {"poll_1rxtx", "poll_generic"} /\ last.fault = "none") =>
    last.at = [k \in 1 .. last.ret |-> k - 1]


\* the reinit before this state found added wrapped past zero and removed
\* not: added below removed, with entries pending between them
ReinitWrapped ==
  /\ last.op \in ReinitOps
  /\ last.pre_roll.prog.added < last.pre_roll.prog.removed
  /\ Wrap(last.pre_roll.prog.added - last.pre_roll.prog.removed) > 0

\* C38: when added has wrapped past zero and removed has not, ef_vi_rxq_reinit
\* and ef_vi_txq_reinit still pass each of the (added - removed) mod 2^w
\* pending ids to the callback, and no id slot holds anything but the unused
\* sentinel once the counters are zero.
C38_ReinitWrapped ==
  ReinitWrapped =>
    /\ Len(last.log)
         = Wrap(last.pre_roll.prog.added - last.pre_roll.prog.removed)
    /\ \A k \in 1 .. Len(PendingIds(last.pre_roll.prog, txq_mask)) :
         \E j \in 1 .. Len(last.log) :
           last.log[j] = PendingIds(last.pre_roll.prog, txq_mask)[k]
    /\ ReinitQueue.added = 0
    /\ ReinitQueue.removed = 0
    /\ \A i \in 0 .. txq_mask : ReinitQueue.ids[i] = EF_REQUEST_ID_MASK


\* efct_ef_eventq_check_event called in this state can return false
CheckEventCanBeFalse ==
  ~efct_tx_check_event /\ "false" \in efct_rx_check_event

\* C39: efct_ef_eventq_check_event agrees with the poll that follows it, also
\* when a queue's next index is superbuf_pkts (rollover due) or
\* superbuf_pkts + 1 (after attach): from a state in which check_event can
\* return false, a poll returns no event (on a VI with an RX ring; without
\* one check_event does not look at the RX queues).
C39_CheckEventAgrees ==
  [][(/\ vi.vi_rxq_mask /= 0
      /\ CheckEventCanBeFalse
      /\ last' /= last
      /\ last'.op \in {"poll_rx", "poll_tx"})
       => last'.ret = 0]_vars


(***************************************************************************)
(* C40.  The loops of the polls and of efct_tx_handle_event end.           *)
(***************************************************************************)
\* the loop of efct_tx_handle_event that the log entry e records made at most
\* seq_mask steps and ended where the event's sequence points, or, if it
\* ended at the BUG_ON, at added
HandleEventEnds(e, faulted) ==
  /\ e.new_previous - e.previous \in 0 .. seq_mask
  /\ IF faulted
       THEN e.new_previous = txq_added
       ELSE e.new_previous % (seq_mask + 1) = (e.seq + 1) % (seq_mask + 1)

\* C40: no poll waits for its peer: with the kernel and the NIC running
\* between the iterations, the loop body of efct_poll_rx and of efct_poll_tx
\* is entered at most evs_len times in a call, each of the two loops of
\* efxdp_ef_eventq_poll runs at most evs_len times, and the loop of
\* efct_tx_handle_event ends after at most seq_mask steps, with previous
\* equal to seq + 1 modulo the width of the sequence field or at the
\* assertion previous == added, for every sequence and every TX state.
C40_Terminates ==
  /\ pc.iters <= pc.evs_len
  /\ pc.i <= pc.iters
  /\ pc.at \in {"read", "store"} => Len(pc.evs) <= pc.evs_len
  /\ pc.at = "read" => Len(pc.evs) < pc.evs_len
  /\ last.op = "xdp_poll" =>
       /\ Len(XdpRxEvents(last.log)) <= last.arg
       /\ Len(XdpTxDescIds(last.log)) <= last.arg
  /\ pc.at = "poll_tx" =>
       \A k \in 1 .. Len(pc.evs) : HandleEventEnds(pc.evs[k], FALSE)
  /\ last.op = "poll_tx" =>
       /\ last.fault \in {"none", "previous_is_added", "evq_overrun"}
       /\ \A k \in 1 .. Len(last.log) :
            HandleEventEnds(last.log[k],
                            last.fault /= "none" /\ k = Len(last.log))

\* a poll of the TX ring for MaxEvs events has returned MaxEvs events, the
\* second of which the NIC wrote while the poll ran (the ring holds one
\* unconsumed event at a time), and one of its events took seq_mask steps
C40_Witness ==
  /\ last.op = "poll_tx"
  /\ last.fault = "none"
  /\ last.arg = MaxEvs
  /\ last.ret = MaxEvs
  /\ pc.iters = MaxEvs
  /\ \E k \in 1 .. Len(last.log) :
       last.log[k].new_previous - last.log[k].previous = seq_mask

\* the second event of a poll has run previous up to added, over at least one
\* packet, without meeting its sequence
C40_WitnessFault ==
  /\ last.op = "poll_tx"
  /\ last.fault = "previous_is_added"
  /\ pc.i = 1
  /\ last.log[1].new_previous > last.log[1].previous

\* a poll of an RX queue for MaxEvs events has returned as many
C40_WitnessRx ==
  /\ last.op = "poll_rx"
  /\ last.arg = MaxEvs
  /\ last.ret = MaxEvs
  /\ pc.iters = MaxEvs

\* a poll of the AF_XDP VI that read its RX ring has returned MaxEvs events
C40_WitnessXdp ==
  /\ last.op = "xdp_poll"
  /\ last.arg = MaxEvs
  /\ Len(XdpRxEvents(last.log)) = 1
  /\ Len(XdpTxDescIds(last.log)) = 1

=============================================================================
